---- MODULE Spec2Model ----
(***************************************************************************)
(* Model of the account repository (crud/usuario_crud.py), the password   *)
(* utility (auth/security.py) and the /auth and /usuarios routes.          *)
(*                                                                         *)
(* A Python str is a sequence of one-character strings.  None is the       *)
(* one-element sequence <<"<None>">>, which is no Python string.           *)
(***************************************************************************)
EXTENDS Integers, Sequences, FiniteSets, TLC

\* ------------------------------------------------------------------ bounds
NumProcs == 2   \* requests that may be inside crear_usuario at once
MaxId == 2      \* accounts ever created (uuid4 values handed out)

Procs == 1..NumProcs

\* ---------------------------------------------------------------- state
VARIABLES
  usuarios,   \* the usuarios table: id -> row
  nextId,     \* how many ids were handed out, plus one
  pc,         \* per request slot: where it stands inside crear_usuario
  req,        \* per request slot: route and arguments of the call
  ultimo,     \* the last response sent or call returned
  reloj,      \* the wall clock, in minutes
  tokenCliente, \* the token a client holds, NoToken for none
  partidas    \* the partidas table: id -> row

vars == <<usuarios, nextId, pc, req, ultimo, reloj, tokenCliente, partidas>>

\* ------------------------------------------------------------- characters
UpperSeq == <<"A","B","C","D","E","F","G","H","I","J","K","L","M",
              "N","O","P","Q","R","S","T","U","V","W","X","Y","Z">>
LowerSeq == <<"a","b","c","d","e","f","g","h","i","j","k","l","m",
              "n","o","p","q","r","s","t","u","v","w","x","y","z">>
UpperLetters == {UpperSeq[i] : i \in 1..26}
LowerLetters == {LowerSeq[i] : i \in 1..26}
Letters == UpperLetters \cup LowerLetters
Digits == {"0","1","2","3","4","5","6","7","8","9"}
Whitespace == {" ", "\t", "\n", "\r"}

None == <<"<None>">>

\* str.lower() on the upper-case letters
LowerMap == [c \in UpperLetters |-> LowerSeq[CHOOSE i \in 1..26 : UpperSeq[i] = c]]

\* str.lower() on one character
LowerChar(c) == IF c \in UpperLetters THEN LowerMap[c] ELSE c

\* str.lower()
Lower(s) == [i \in 1..Len(s) |-> LowerChar(s[i])]

\* str.lstrip() and str.rstrip()
RECURSIVE LStrip(_)
LStrip(s) ==
  IF s # <<>> /\ Head(s) \in Whitespace THEN LStrip(Tail(s)) ELSE s

RECURSIVE RStrip(_)
RStrip(s) ==
  IF s # <<>> /\ s[Len(s)] \in Whitespace THEN RStrip(SubSeq(s, 1, Len(s) - 1)) ELSE s

\* str.strip(): drops leading and trailing whitespace
Strip(s) == RStrip(LStrip(s))

AllIn(s, lo, hi, cls) == \A k \in lo..hi : s[k] \in cls

\* The subject lengths at which a pattern's final "$" can match: the end of
\* the string, or just before one trailing newline (Python re, no MULTILINE).
DollarEnds(s) ==
  {Len(s)} \cup (IF Len(s) > 0 /\ s[Len(s)] = "\n" THEN {Len(s) - 1} ELSE {})

\* ------------------------------------------------ UsuarioCRUD validators
EmailLocalChars == Letters \cup Digits \cup {".", "_", "%", "+", "-"}
EmailDomainChars == Letters \cup Digits \cup {".", "-"}

\* re.match(r"^[a-zA-Z0-9._%+-]+@[a-zA-Z0-9.-]+\.[a-zA-Z]{2,}$", email)
_validar_email(email) ==
  \E n \in DollarEnds(email) :
    \E i \in 2..n : \E j \in (i + 2)..(n - 2) :
      /\ email[i] = "@"
      /\ email[j] = "."
      /\ AllIn(email, 1, i - 1, EmailLocalChars)
      /\ AllIn(email, i + 1, j - 1, EmailDomainChars)
      /\ AllIn(email, j + 1, n, Letters)

TelefonoChars == Digits \cup Whitespace \cup {"-", "(", ")"}

\* re.match(r"^\+?[\d\s\-\(\)]{7,15}$", telefono)
_validar_telefono(telefono) ==
  \E n \in DollarEnds(telefono) :
    \E start \in {1} \cup (IF Len(telefono) > 0 /\ telefono[1] = "+" THEN {2} ELSE {}) :
      /\ n - start + 1 \in 7..15
      /\ AllIn(telefono, start, n, TelefonoChars)

UsernameChars == Letters \cup Digits \cup {"_"}

\* re.match(r"^[a-zA-Z0-9_]{3,20}$", nombre_usuario)
_validar_nombre_usuario(nombre_usuario) ==
  \E n \in DollarEnds(nombre_usuario) :
    /\ n \in 3..20
    /\ AllIn(nombre_usuario, 1, n, UsernameChars)

\* -------------------------------------------------------- PasswordManager
SpecialChars == {"!","@","#","$","%","^","&","*","(",")","_","+","-","=",
                 "[","]","{","}","|",";",":",",",".","<",">","?"}

Salts == {"5f1c", "a09e"}   \* values secrets.token_hex may return

\* hashlib.pbkdf2_hmac(...).hex(): one opaque token determined by the HMAC
\* key of the plaintext and by the salt, different for different (key, salt).
RECURSIVE Join(_)
Join(s) == IF s = <<>> THEN "" ELSE Head(s) \o "," \o Join(Tail(s))

\* the character U+0000
Nul == "<NUL>"

BlockSize == 64   \* bytes in a SHA-256 block

\* the key HMAC derives from the password bytes: a key longer than a block is
\* replaced by its SHA-256 digest, a shorter one is padded with zero bytes
\* up to the block, so that trailing zero bytes make no difference
RECURSIVE HmacKey(_)
HmacKey(key) ==
  IF Len(key) > BlockSize THEN <<"sha256[" \o Join(key) \o "]">>
  ELSE IF key # <<>> /\ key[Len(key)] = Nul THEN HmacKey(SubSeq(key, 1, Len(key) - 1))
  ELSE key

Pbkdf2Hex(password, salt) ==
  "pbkdf2[" \o Join(HmacKey(password)) \o "|" \o Join(salt) \o "]"

\* f"{salt}:{password_hash.hex()}" for the salt drawn by secrets.token_hex
HashWithSalt(password, salt) == <<salt, ":", Pbkdf2Hex(password, <<salt>>)>>

\* str.split(":")
RECURSIVE SplitColon(_)
SplitColon(s) ==
  LET cuts == {i \in 1..Len(s) : s[i] = ":"}
  IN IF cuts = {} THEN <<s>>
     ELSE LET c == CHOOSE i \in cuts : \A j \in cuts : i <= j
          IN <<SubSeq(s, 1, c - 1)>> \o SplitColon(SubSeq(s, c + 1, Len(s)))

\* the try block of verify_password: the exception it raises ("" for none)
\* and the value it returns.  None.split raises AttributeError, unpacking
\* anything but two parts raises ValueError, None.encode AttributeError.
verify_password_try(password, password_hash) ==
  IF password_hash = None THEN [exc |-> "AttributeError", ret |-> FALSE]
  ELSE LET parts == SplitColon(password_hash)
       IN IF Len(parts) # 2 THEN [exc |-> "ValueError", ret |-> FALSE]
          ELSE IF password = None THEN [exc |-> "AttributeError", ret |-> FALSE]
          ELSE [exc |-> "", ret |-> <<Pbkdf2Hex(password, parts[1])>> = parts[2]]

\* verify_password with "except ValueError" alone
verify_password_resultado_sin_attribute(password, password_hash) ==
  LET t == verify_password_try(password, password_hash)
  IN IF t.exc = "ValueError" THEN [exc |-> "", ret |-> FALSE] ELSE t

\* PasswordManager.verify_password as a call: the exception that leaves it
\* and the value returned; "except (ValueError, AttributeError): return False"
verify_password_resultado(password, password_hash) ==
  LET t == verify_password_try(password, password_hash)
  IN IF t.exc \in {"ValueError", "AttributeError"} THEN [exc |-> "", ret |-> FALSE] ELSE t

\* PasswordManager.verify_password: the value returned
verify_password(password, password_hash) ==
  verify_password_resultado(password, password_hash).ret

MsgOk == "Contrasena valida"
MsgCorta == "La contrasena debe tener al menos 8 caracteres"
MsgLarga == "La contrasena no puede exceder 128 caracteres"
MsgMayuscula == "La contrasena debe contener al menos una letra mayuscula"
MsgMinuscula == "La contrasena debe contener al menos una letra minuscula"
MsgNumero == "La contrasena debe contener al menos un numero"
MsgEspecial == "La contrasena debe contener al menos un caracter especial"

HasChar(s, cls) == \E i \in 1..Len(s) : s[i] \in cls

\* validate_password_strength without the minimum length
validate_password_strength_sin_minimo(password) ==
  IF Len(password) > 128 THEN <<FALSE, MsgLarga>>
  ELSE IF ~HasChar(password, UpperLetters) THEN <<FALSE, MsgMayuscula>>
  ELSE IF ~HasChar(password, LowerLetters) THEN <<FALSE, MsgMinuscula>>
  ELSE IF ~HasChar(password, Digits) THEN <<FALSE, MsgNumero>>
  ELSE IF ~HasChar(password, SpecialChars) THEN <<FALSE, MsgEspecial>>
  ELSE <<TRUE, MsgOk>>

\* validate_password_strength testing for a digit before a lower-case letter
validate_password_strength_digito_antes(password) ==
  IF Len(password) < 8 THEN <<FALSE, MsgCorta>>
  ELSE IF Len(password) > 128 THEN <<FALSE, MsgLarga>>
  ELSE IF ~HasChar(password, UpperLetters) THEN <<FALSE, MsgMayuscula>>
  ELSE IF ~HasChar(password, Digits) THEN <<FALSE, MsgNumero>>
  ELSE IF ~HasChar(password, LowerLetters) THEN <<FALSE, MsgMinuscula>>
  ELSE IF ~HasChar(password, SpecialChars) THEN <<FALSE, MsgEspecial>>
  ELSE <<TRUE, MsgOk>>

\* PasswordManager.validate_password_strength
validate_password_strength(password) ==
  IF Len(password) < 8 THEN <<FALSE, MsgCorta>>
  ELSE IF Len(password) > 128 THEN <<FALSE, MsgLarga>>
  ELSE IF ~HasChar(password, UpperLetters) THEN <<FALSE, MsgMayuscula>>
  ELSE IF ~HasChar(password, LowerLetters) THEN <<FALSE, MsgMinuscula>>
  ELSE IF ~HasChar(password, Digits) THEN <<FALSE, MsgNumero>>
  ELSE IF ~HasChar(password, SpecialChars) THEN <<FALSE, MsgEspecial>>
  ELSE <<TRUE, MsgOk>>

\* ----------------------------------------------------------- TokenManager
SECRET_KEY == "SECRET_KEY"
ACCESS_TOKEN_EXPIRE_MINUTES == 1440

\* timedelta(minutes=m) is <<m>>; an expires_delta of None is NoDelta
NoDelta == <<>>

\* "if expires_delta": None and the zero duration are false
DeltaFalsy(expires_delta) ==
  expires_delta = NoDelta \/ expires_delta[1] = 0

\* jwt.encode(claims, key, HS256): the claims and their MAC under the key
jwt_encode(claims, key) == [claims |-> claims, firma |-> <<key, claims>>]

\* a token held by nobody and a string that is no JWT
NoToken == [claims |-> <<>>, firma |-> <<>>]
TokenMalformado == [claims |-> <<>>, firma |-> <<"x">>]

\* TokenManager.create_access_token at time now (minutes): the token
\* returned and the caller's dict after the call; update() is applied to
\* the copy to_encode
create_access_token_llamada(data, expires_delta, now) ==
  LET expire == IF ~DeltaFalsy(expires_delta) THEN now + expires_delta[1]
                ELSE now + ACCESS_TOKEN_EXPIRE_MINUTES
      to_encode == [exp |-> expire, iat |-> now, type |-> "access_token"] @@ data
  IN [ret |-> jwt_encode(to_encode, SECRET_KEY), data |-> data]

create_access_token(data, expires_delta, now) ==
  create_access_token_llamada(data, expires_delta, now).ret

JWTError == [exc |-> "JWTError", payload |-> <<>>]

\* jwt.decode(token, key, algorithms) at time now: the outcomes it can have.
\* A token that is no JWT or whose MAC is not that of its claims under the
\* key raises; so does one whose exp lies before now.  At now = exp the
\* JWT library decides: both outcomes are kept.
jwt_decode(token, key, now) ==
  IF token.firma # <<key, token.claims>> THEN {JWTError}
  ELSE LET valido == [exc |-> "", payload |-> token.claims]
       IN IF "exp" \notin DOMAIN token.claims THEN {valido}
          ELSE IF token.claims.exp < now THEN {JWTError}
          ELSE IF token.claims.exp = now THEN {valido, JWTError}
          ELSE {valido}

\* verify_token also asking the store for an active account of the token
verify_token_con_store(token, now) ==
  IF /\ "user_id" \in DOMAIN token.claims
     /\ \/ token.claims.user_id \notin DOMAIN usuarios
        \/ ~usuarios[token.claims.user_id].activo
    THEN {JWTError}
    ELSE jwt_decode(token, SECRET_KEY, now)

\* TokenManager.verify_token: a JWTError is raised again as JWTError
verify_token(token, now) == jwt_decode(token, SECRET_KEY, now)

\* get_user_id_from_token returning the claim of the token unverified
get_user_id_from_token_sin_verificar(token, now) ==
  {IF "user_id" \notin DOMAIN token.claims \/ token.claims.user_id = 0
     THEN [exc |-> "JWTError", user_id |-> 0]
     ELSE [exc |-> "", user_id |-> token.claims.user_id]}

\* TokenManager.get_user_id_from_token: the outcomes it can have; user_id
\* is 0 when JWTError is raised.  payload.get gives None for an absent
\* claim, and "not user_id" holds for None and for 0
get_user_id_from_token(token, now) ==
  {IF r.exc # "" THEN [exc |-> "JWTError", user_id |-> 0]
   ELSE IF "user_id" \notin DOMAIN r.payload \/ r.payload.user_id = 0
     THEN [exc |-> "JWTError", user_id |-> 0]
   ELSE [exc |-> "", user_id |-> r.payload.user_id] : r \in verify_token(token, now)}

\* TokenManager.get_username_from_token; "not username" holds for None and
\* for the empty string
get_username_from_token(token, now) ==
  {IF r.exc # "" THEN [exc |-> "JWTError", username |-> <<>>]
   ELSE IF "sub" \notin DOMAIN r.payload \/ r.payload.sub = <<>>
     THEN [exc |-> "JWTError", username |-> <<>>]
   ELSE [exc |-> "", username |-> r.payload.sub] : r \in verify_token(token, now)}

\* ------------------------------------------------------------ the store
NoId == 0
Ids == 1..MaxId

ErrNombreObligatorio == "El nombre es obligatorio"
ErrNombreLargo == "El nombre no puede exceder 100 caracteres"
ErrUsuarioFormato == "El nombre de usuario debe tener entre 3-20 caracteres"
ErrUsuarioRegistrado == "El nombre de usuario ya esta registrado"
ErrEmailInvalido == "Email invalido"
ErrEmailRegistrado == "El email ya esta registrado"
ErrContrasenaObligatoria == "La contrasena es obligatoria"
ErrTelefono == "Formato de telefono invalido"
ErrContrasenaActual == "La contrasena actual es incorrecta"
PrefContrasena == "Contrasena invalida: "
PrefNuevaContrasena == "Nueva contrasena invalida: "

\* Query.first() over the ids of the rows the filter keeps: one of them,
\* NoId for None
First(rows) == IF rows = {} THEN NoId ELSE CHOOSE i \in rows : TRUE

\* UsuarioCRUD.obtener_usuario
obtener_usuario(db, usuario_id) ==
  IF usuario_id \in DOMAIN db THEN usuario_id ELSE NoId

\* obtener_usuario_por_email comparing without lower()
obtener_usuario_por_email_sin_lower(db, email) ==
  LET buscado == Strip(email)
  IN First({i \in DOMAIN db : db[i].email = buscado})

\* UsuarioCRUD.obtener_usuario_por_email
obtener_usuario_por_email(db, email) ==
  LET buscado == Strip(Lower(email))
  IN First({i \in DOMAIN db : db[i].email = buscado})

\* UsuarioCRUD.obtener_usuario_por_nombre_usuario
obtener_usuario_por_nombre_usuario(db, nombre_usuario) ==
  LET buscado == Strip(Lower(nombre_usuario))
  IN First({i \in DOMAIN db : db[i].nombre_usuario = buscado})

\* UsuarioCRUD.obtener_admin_por_defecto
AdminEmail == <<"a","d","m","i","n","@","s","y","s","t","e","m",".","c","o","m">>
AdminUsername == <<"a","d","m","i","n">>
AdminNombre == <<"A","d","m","i","n","i","s","t","r","a","d","o","r">>

obtener_admin_por_defecto(db) ==
  First({i \in DOMAIN db : db[i].email = AdminEmail /\ db[i].es_admin})

\* autenticar_usuario without the "not usuario.activo" test of line 124
autenticar_usuario_sin_activo(db, nombre_usuario, contrasena) ==
  LET porNombre == obtener_usuario_por_nombre_usuario(db, nombre_usuario)
      usuario == IF porNombre = NoId
                   THEN obtener_usuario_por_email(db, nombre_usuario)
                   ELSE porNombre
  IN IF usuario = NoId THEN NoId
     ELSE IF verify_password(contrasena, db[usuario].contrasena_hash) THEN usuario
     ELSE NoId

\* UsuarioCRUD.autenticar_usuario
autenticar_usuario(db, nombre_usuario, contrasena) ==
  LET porNombre == obtener_usuario_por_nombre_usuario(db, nombre_usuario)
      usuario == IF porNombre = NoId
                   THEN obtener_usuario_por_email(db, nombre_usuario)
                   ELSE porNombre
  IN IF usuario = NoId THEN NoId
     ELSE IF ~db[usuario].activo THEN NoId
     ELSE IF verify_password(contrasena, db[usuario].contrasena_hash) THEN usuario
     ELSE NoId

\* the table with no unique index on either column
UniqueViolation_sin_indices(db, id, row) == FALSE

\* unique=True on usuarios.nombre_usuario and usuarios.email: would writing
\* row under id leave two rows with one username or one email?
UniqueViolation(db, id, row) ==
  \E j \in DOMAIN db \ {id} :
    \/ db[j].nombre_usuario = row.nombre_usuario
    \/ db[j].email = row.email

\* "not x" for an Optional[str]: None or the empty string
Falsy(x) == x = None \/ x = <<>>

\* crear_usuario up to the username lookup: the message of the ValueError
\* raised, "" when none is
CrearErrorNombreUsuario(db, a) ==
  IF Falsy(a.nombre) \/ Len(Strip(a.nombre)) = 0 THEN ErrNombreObligatorio
  ELSE IF Len(a.nombre) > 100 THEN ErrNombreLargo
  ELSE IF Falsy(a.nombre_usuario) \/ ~_validar_nombre_usuario(a.nombre_usuario)
    THEN ErrUsuarioFormato
  ELSE IF obtener_usuario_por_nombre_usuario(db, a.nombre_usuario) # NoId
    THEN ErrUsuarioRegistrado
  ELSE ""

\* crear_usuario, email format and email lookup
CrearErrorEmail(db, a) ==
  IF Falsy(a.email) \/ ~_validar_email(a.email) THEN ErrEmailInvalido
  ELSE IF obtener_usuario_por_email(db, a.email) # NoId THEN ErrEmailRegistrado
  ELSE ""

\* crear_usuario, password and phone
CrearErrorContrasena(a) ==
  IF Falsy(a.contrasena) THEN ErrContrasenaObligatoria
  ELSE LET valida == validate_password_strength(a.contrasena)
  IN IF ~valida[1] THEN PrefContrasena \o valida[2]
  ELSE IF ~Falsy(a.telefono) /\ ~_validar_telefono(a.telefono) THEN ErrTelefono
  ELSE ""

\* Usuario(...) built with the email as nombre_usuario
NuevoUsuario_usuario_es_email(a, salt) ==
  [nombre |-> Strip(a.nombre),
   nombre_usuario |-> Lower(Strip(a.email)),
   email |-> Lower(Strip(a.email)),
   telefono |-> a.telefono,
   contrasena_hash |-> HashWithSalt(a.contrasena, salt),
   edad |-> a.edad,
   saldo_inicial |-> a.saldo_inicial,
   es_admin |-> a.es_admin,
   activo |-> TRUE,
   fecha_registro |-> reloj,
   fecha_actualizacion |-> reloj]

\* Usuario(...) built with contrasena_hash=contrasena
NuevoUsuario_sin_hash(a, salt) ==
  [nombre |-> Strip(a.nombre),
   nombre_usuario |-> Lower(Strip(a.nombre_usuario)),
   email |-> Lower(Strip(a.email)),
   telefono |-> a.telefono,
   contrasena_hash |-> a.contrasena,
   edad |-> a.edad,
   saldo_inicial |-> a.saldo_inicial,
   es_admin |-> a.es_admin,
   activo |-> TRUE,
   fecha_registro |-> reloj,
   fecha_actualizacion |-> reloj]

\* Usuario(...) as crear_usuario builds it; activo, fecha_registro and
\* fecha_actualizacion take the column defaults (True, datetime.now)
NuevoUsuario(a, salt) ==
  [nombre |-> Strip(a.nombre),
   nombre_usuario |-> Lower(Strip(a.nombre_usuario)),
   email |-> Lower(Strip(a.email)),
   telefono |-> a.telefono,
   contrasena_hash |-> HashWithSalt(a.contrasena, salt),
   edad |-> a.edad,
   saldo_inicial |-> a.saldo_inicial,
   es_admin |-> a.es_admin,
   activo |-> TRUE,
   fecha_registro |-> reloj,
   fecha_actualizacion |-> reloj]

Resultado(db, error, detail, id) ==
  [db |-> db, error |-> error, detail |-> detail, id |-> id]

\* the INSERT under a unique index on nombre_usuario alone
Insertar_sin_indice_email(db, id, row) ==
  IF \E j \in DOMAIN db \ {id} : db[j].nombre_usuario = row.nombre_usuario
    THEN Resultado(db, "IntegrityError", "IntegrityError", NoId)
    ELSE Resultado([i \in DOMAIN db \cup {id} |-> IF i = id THEN row ELSE db[i]],
                   "", "", id)

\* db.add(usuario); db.commit(): the INSERT under the unique indexes
Insertar(db, id, row) ==
  IF UniqueViolation(db, id, row)
    THEN Resultado(db, "IntegrityError", "IntegrityError", NoId)
    ELSE Resultado([i \in DOMAIN db \cup {id} |-> IF i = id THEN row ELSE db[i]],
                   "", "", id)

\* crear_usuario checking the email before the username
CrearError_email_antes(db, a) ==
  LET nombre == CrearErrorNombreUsuario(db, a)
      email == CrearErrorEmail(db, a)
  IN IF nombre \in {ErrNombreObligatorio, ErrNombreLargo} THEN nombre
     ELSE IF email # "" THEN email
     ELSE IF nombre # "" THEN nombre
     ELSE CrearErrorContrasena(a)

\* crear_usuario lines 47-75: the message of the ValueError raised, "" when
\* every check passes
CrearError(db, a) ==
  LET nombre == CrearErrorNombreUsuario(db, a)
      email == CrearErrorEmail(db, a)
  IN IF nombre # "" THEN nombre
     ELSE IF email # "" THEN email
     ELSE CrearErrorContrasena(a)

\* UsuarioCRUD.crear_usuario run without interruption; id is the uuid4 the
\* row would get, salt the value token_hex would return
crear_usuario(db, a, salt, id) ==
  LET err == CrearError(db, a)
  IN IF err # "" THEN Resultado(db, "ValueError", err, NoId)
     ELSE Insertar(db, id, NuevoUsuario(a, salt))

\* the checks of actualizar_usuario with uniqueness not excluding the
\* account itself
ActualizarError_sin_excluir(db, usuario_id, kwargs) ==
  IF "email" \in DOMAIN kwargs /\ ~_validar_email(kwargs.email)
    THEN ErrEmailInvalido
  ELSE IF /\ "email" \in DOMAIN kwargs
          /\ obtener_usuario_por_email(db, kwargs.email) # NoId
    THEN ErrEmailRegistrado
  ELSE IF /\ "nombre_usuario" \in DOMAIN kwargs
          /\ \/ Falsy(kwargs.nombre_usuario)
             \/ ~_validar_nombre_usuario(kwargs.nombre_usuario)
    THEN ErrUsuarioFormato
  ELSE IF /\ "nombre_usuario" \in DOMAIN kwargs
          /\ obtener_usuario_por_nombre_usuario(db, kwargs.nombre_usuario) # NoId
    THEN ErrUsuarioRegistrado
  ELSE ""

\* the ValueError actualizar_usuario raises for kwargs, "" when none
ActualizarError(db, usuario_id, kwargs) ==
  IF "email" \in DOMAIN kwargs /\ ~_validar_email(kwargs.email)
    THEN ErrEmailInvalido
  ELSE IF /\ "email" \in DOMAIN kwargs
          /\ obtener_usuario_por_email(db, kwargs.email) # NoId
          /\ obtener_usuario_por_email(db, kwargs.email) # usuario_id
    THEN ErrEmailRegistrado
  ELSE IF /\ "telefono" \in DOMAIN kwargs
          /\ ~Falsy(kwargs.telefono)
          /\ ~_validar_telefono(kwargs.telefono)
    THEN ErrTelefono
  ELSE IF "nombre" \in DOMAIN kwargs
          /\ (Falsy(kwargs.nombre) \/ Len(Strip(kwargs.nombre)) = 0)
    THEN ErrNombreObligatorio
  ELSE IF "nombre" \in DOMAIN kwargs /\ Len(kwargs.nombre) > 100
    THEN ErrNombreLargo
  ELSE IF /\ "nombre_usuario" \in DOMAIN kwargs
          /\ \/ Falsy(kwargs.nombre_usuario)
             \/ ~_validar_nombre_usuario(kwargs.nombre_usuario)
    THEN ErrUsuarioFormato
  ELSE IF /\ "nombre_usuario" \in DOMAIN kwargs
          /\ obtener_usuario_por_nombre_usuario(db, kwargs.nombre_usuario) # NoId
          /\ obtener_usuario_por_nombre_usuario(db, kwargs.nombre_usuario) # usuario_id
    THEN ErrUsuarioRegistrado
  ELSE IF "contrasena" \in DOMAIN kwargs
    THEN LET valida == validate_password_strength(kwargs.contrasena)
         IN IF ~valida[1] THEN PrefContrasena \o valida[2] ELSE ""
  ELSE ""

\* actualizar_usuario without line 201: the username is stored as given
KwargNormalizado_sin_201(kwargs, key, salt) ==
  CASE key = "email" -> Strip(Lower(kwargs.email))
    [] key = "telefono" ->
         IF Falsy(kwargs.telefono) THEN kwargs.telefono ELSE Strip(kwargs.telefono)
    [] key = "nombre" -> Strip(kwargs.nombre)
    [] key = "contrasena_hash" -> HashWithSalt(kwargs.contrasena, salt)
    [] OTHER -> kwargs[key]

\* the value actualizar_usuario leaves in kwargs[key] before the setattr loop
KwargNormalizado(kwargs, key, salt) ==
  CASE key = "email" -> Strip(Lower(kwargs.email))
    [] key = "telefono" ->
         IF Falsy(kwargs.telefono) THEN kwargs.telefono ELSE Strip(kwargs.telefono)
    [] key = "nombre" -> Strip(kwargs.nombre)
    [] key = "nombre_usuario" -> Lower(Strip(kwargs.nombre_usuario))
    [] key = "contrasena_hash" -> HashWithSalt(kwargs.contrasena, salt)
    [] OTHER -> kwargs[key]

Sellos == {"fecha_registro", "fecha_actualizacion"}

Columnas == {"nombre", "nombre_usuario", "email", "telefono", "contrasena_hash",
             "edad", "saldo_inicial", "es_admin", "activo"}

\* the row after an update that also writes the column default of activo
\* when the keyword is not given
FilaActualizada_reinicia_activo(row, kwargs, salt) ==
  [c \in Columnas \cup Sellos |->
     IF c \in DOMAIN kwargs THEN KwargNormalizado(kwargs, c, salt)
     ELSE IF c = "activo" THEN TRUE
     ELSE IF c = "fecha_actualizacion" THEN reloj
     ELSE row[c]]

\* the row after the setattr loop and the commit: "contrasena" was replaced
\* by "contrasena_hash", keys the entity lacks are skipped; the UPDATE the
\* commit emits when some column changed sets fecha_actualizacion (onupdate)
FilaActualizada(row, kwargs, salt) ==
  LET keys == (DOMAIN kwargs \ {"contrasena"})
                \cup (IF "contrasena" \in DOMAIN kwargs THEN {"contrasena_hash"} ELSE {})
      valor(c) == IF c \in keys THEN KwargNormalizado(kwargs, c, salt) ELSE row[c]
      cambia == \E c \in Columnas : valor(c) # row[c]
  IN [c \in Columnas \cup Sellos |->
        IF c \in Columnas THEN valor(c)
        ELSE IF c = "fecha_actualizacion" /\ cambia THEN reloj
        ELSE row[c]]

\* actualizar_usuario assigning the email as soon as its own checks pass,
\* before the later fields are validated
actualizar_usuario_asigna_antes(db, usuario_id, kwargs, salt) ==
  IF obtener_usuario(db, usuario_id) = NoId
    THEN Resultado(db, "", "", NoId)
  ELSE LET err == ActualizarError(db, usuario_id, kwargs)
           row == FilaActualizada(db[usuario_id], kwargs, salt)
           emailOk == /\ "email" \in DOMAIN kwargs
                      /\ err \notin {ErrEmailInvalido, ErrEmailRegistrado}
           parcial == IF emailOk
                        THEN [db EXCEPT ![usuario_id].email = Strip(Lower(kwargs.email))]
                        ELSE db
       IN IF err # "" THEN Resultado(parcial, "ValueError", err, NoId)
          ELSE IF UniqueViolation(db, usuario_id, row)
            THEN Resultado(db, "IntegrityError", "IntegrityError", NoId)
          ELSE Resultado([db EXCEPT ![usuario_id] = row], "", "", usuario_id)

\* UsuarioCRUD.actualizar_usuario: the store afterwards, the exception
\* class raised ("" for none), its message, and the id returned (NoId: None)
actualizar_usuario(db, usuario_id, kwargs, salt) ==
  IF obtener_usuario(db, usuario_id) = NoId
    THEN Resultado(db, "", "", NoId)
  ELSE LET err == ActualizarError(db, usuario_id, kwargs)
           row == FilaActualizada(db[usuario_id], kwargs, salt)
       IN IF err # "" THEN Resultado(db, "ValueError", err, NoId)
          ELSE IF UniqueViolation(db, usuario_id, row)
            THEN Resultado(db, "IntegrityError", "IntegrityError", NoId)
          ELSE Resultado([db EXCEPT ![usuario_id] = row], "", "", usuario_id)

\* desactivar_usuario deleting the row instead of clearing the flag
desactivar_usuario_borra(db, usuario_id, salt) ==
  IF obtener_usuario(db, usuario_id) = NoId
    THEN Resultado(db, "", "", NoId)
    ELSE Resultado([i \in DOMAIN db \ {usuario_id} |-> db[i]], "", "", usuario_id)

\* desactivar_usuario passing activo=True
desactivar_usuario_activa(db, usuario_id, salt) ==
  actualizar_usuario(db, usuario_id, [activo |-> TRUE], salt)

\* UsuarioCRUD.desactivar_usuario
desactivar_usuario(db, usuario_id, salt) ==
  actualizar_usuario(db, usuario_id, [activo |-> FALSE], salt)

\* UsuarioCRUD.cambiar_contrasena; id = NoId stands for "return False"
cambiar_contrasena(db, usuario_id, contrasena_actual, nueva_contrasena, salt) ==
  IF obtener_usuario(db, usuario_id) = NoId
    THEN Resultado(db, "", "", NoId)
  ELSE IF ~verify_password(contrasena_actual, db[usuario_id].contrasena_hash)
    THEN Resultado(db, "ValueError", ErrContrasenaActual, NoId)
  ELSE IF ~validate_password_strength(nueva_contrasena)[1]
    THEN Resultado(db, "ValueError",
                   PrefNuevaContrasena \o validate_password_strength(nueva_contrasena)[2],
                   NoId)
  ELSE Resultado([db EXCEPT ![usuario_id].contrasena_hash =
                                   HashWithSalt(nueva_contrasena, salt),
                             ![usuario_id].fecha_actualizacion = reloj],
                 "", "", usuario_id)

\* UsuarioCRUD.eliminar_usuario
eliminar_usuario(db, usuario_id) ==
  IF obtener_usuario(db, usuario_id) # NoId
    THEN [db |-> [i \in DOMAIN db \ {usuario_id} |-> db[i]], id |-> usuario_id]
    ELSE [db |-> db, id |-> NoId]

\* ------------------------------------------------------- request inputs
Ana == <<"A","n","a">>
Abc == <<"a","b","c">>
AbcMayus == <<"A","B","C">>
AbcLinea == <<"A","b","C","\n">>
Ab == <<"a","b">>
EmailA == <<"a","@","x",".","c","o">>
EmailAMayus == <<"A","@","X",".","c","o">>
EmailAEspacio == <<" ","a","@","x",".","c","o">>
EmailALinea == <<"a","@","x",".","c","o","\n">>
EmailMalo == <<"b","a","d">>
Clave1 == <<"A","b","c","d","e","f","1","!">>
Clave2 == <<"Q","w","e","r","t","y","2","?">>
ClaveCorta == <<"A","b","1","!">>
TelMalo == <<"x","1">>
Edad30 == <<"3","0">>
Edad99 == <<"9","9">>

\* values generate_secure_password(12) may return: twelve characters drawn
\* independently from letters, digits and the special set
ClaveGenerada == <<"k","T","4","$","m","Z","p","9","!","a","B","c">>

ClavesGeneradas ==
  {ClaveGenerada,
   <<"q","w","e","r","t","y","u","i","o","p","a","s">>}

Valido(u, e, c) ==
  [nombre |-> Ana, nombre_usuario |-> u, email |-> e, contrasena |-> c,
   telefono |-> None, edad |-> Edad30, saldo_inicial |-> 0, es_admin |-> FALSE]

\* bodies of POST /auth/registro
CuerposCrear ==
  {Valido(Abc, EmailA, Clave1), Valido(AbcMayus, AdminEmail, Clave1),
   Valido(AdminUsername, EmailAMayus, Clave1),
   [Valido(AdminUsername, AdminEmail, Clave1) EXCEPT !.es_admin = TRUE],
   Valido(AdminUsername, EmailAEspacio, Clave1), Valido(AdminUsername, EmailALinea, Clave1),
   Valido(Ab, AdminEmail, Clave1),
   Valido(AdminUsername, AdminEmail, ClaveCorta)}

\* the bodies of the registrations that run concurrently
CuerposCarrera ==
  {Valido(Abc, EmailA, Clave1), Valido(AbcMayus, AdminEmail, Clave1),
   Valido(AdminUsername, EmailAMayus, Clave1)}

\* the arguments crear_usuario_admin passes to crear_usuario
ArgsAdmin(contrasena_admin) ==
  [nombre |-> AdminNombre, nombre_usuario |-> AdminUsername, email |-> AdminEmail,
   contrasena |-> contrasena_admin, telefono |-> None, edad |-> Edad99,
   saldo_inicial |-> 0, es_admin |-> TRUE]

\* bodies of PUT /usuarios/{id} with the null fields left out
CuerposPut ==
  {<<>>,
   [email |-> EmailAMayus], [nombre_usuario |-> AbcLinea],
   [email |-> AdminEmail, nombre_usuario |-> Ab],
   [activo |-> FALSE], [activo |-> TRUE]}

\* keyword arguments of actualizar_usuario calls that set a password
KwargsCrud == {[contrasena |-> Clave2], [contrasena |-> ClaveCorta],
               [email |-> EmailA, contrasena |-> ClaveCorta]}

\* keyword arguments of the actualizar_usuario calls that run while
\* registrations are in flight: a new email, a new username
KwargsCarrera == {[email |-> EmailAMayus], [nombre_usuario |-> AbcMayus]}

Nadie == <<"n","a","d","i","e">>

Identificadores == {AbcMayus, EmailAMayus, AdminUsername, Nadie, <<>>}

Contrasenas == {Clave1, Clave2, ClaveCorta, ClaveGenerada}

\* the ids requests name: those of the stored accounts and one that no
\* account has (a uuid never handed out, or one of a deleted account)
IdsPedidos(db) == DOMAIN db \cup {MaxId + 1}

SinReq == [ruta |-> "", args |-> <<>>]

Respuesta(op, status, error, id) ==
  [op |-> op, status |-> status, error |-> error, id |-> id]

Init ==
  /\ usuarios = <<>>
  /\ nextId = 1
  /\ pc = [p \in Procs |-> "idle"]
  /\ req = [p \in Procs |-> SinReq]
  /\ ultimo = Respuesta("", 0, "", NoId)
  /\ reloj = 0
  /\ tokenCliente = NoToken
  /\ partidas = <<>>

\* the handlers' except clauses: ValueError -> 400, any other Exception -> 500
StatusDe(error) ==
  IF error = "ValueError" THEN 400 ELSE 500

\* the response of a route that called crear_usuario and got r
RespuestaCrear(ruta, r) ==
  Respuesta(ruta,
            IF r.error # "" THEN StatusDe(r.error) ELSE 200,
            r.error, r.id)

\* secrets.token_hex is called only where hash_password is: the salts it may
\* return there, one placeholder elsewhere
SaltsSi(hashes) == IF hashes THEN Salts ELSE {""}

\* ----------------------------------------- requests served one at a time
Crear(ruta, args) ==
  /\ CrearError(usuarios, args) = "" => nextId <= MaxId
  /\ \E salt \in SaltsSi(CrearError(usuarios, args) = "") :
       LET r == crear_usuario(usuarios, args, salt, nextId)
       IN /\ usuarios' = r.db
          /\ nextId' = IF r.id # NoId THEN nextId + 1 ELSE nextId
          /\ ultimo' = RespuestaCrear(ruta, r)
  /\ UNCHANGED <<pc, req, reloj, tokenCliente, partidas>>

\* registrar_usuario passing es_admin=usuario_data.es_admin
ArgsRegistro_del_cuerpo(usuario_data) == usuario_data

\* the arguments registrar_usuario passes to crear_usuario: the fields of
\* the body and es_admin=False
ArgsRegistro(usuario_data) == [usuario_data EXCEPT !.es_admin = FALSE]

\* POST /auth/registro
Registro ==
  \E body \in CuerposCrear : Crear("registro", ArgsRegistro(body))

\* POST /auth/crear-admin
CrearAdmin ==
  LET admin_existente == obtener_admin_por_defecto(usuarios)
  IN IF admin_existente # NoId
       THEN /\ ultimo' = Respuesta("crear_admin", 200, "", admin_existente)
            /\ UNCHANGED <<usuarios, nextId, pc, req, reloj, tokenCliente, partidas>>
       ELSE \E clave \in ClavesGeneradas : Crear("crear_admin", ArgsAdmin(clave))

ErrLoginCampos == "El nombre de usuario/email y la contrasena son obligatorios"
ErrLoginCorta == "La contrasena debe tener al menos 8 caracteres"
ErrCredenciales == "Credenciales incorrectas o usuario inactivo"

\* the claims login puts into the token of account id
DatosToken(db, id) ==
  [sub |-> db[id].nombre_usuario, user_id |-> id, email |-> db[id].email,
   es_admin |-> db[id].es_admin, nombre |-> db[id].nombre]

\* TokenResponse of login for account id: a bearer token good for one day
TokenResponse(db, id) ==
  [status |-> 200, detail |-> "", id |-> id, token_type |-> "bearer",
   access_token |-> create_access_token(DatosToken(db, id),
                                        <<ACCESS_TOKEN_EXPIRE_MINUTES>>, reloj)]

\* an HTTPException of login
LoginError(status, detail) ==
  [status |-> status, detail |-> detail, id |-> NoId, token_type |-> "",
   access_token |-> NoToken]

\* login answering 404 when no account has the identifier
login_revela(db, nombre_usuario, contrasena) ==
  IF Falsy(nombre_usuario) \/ Falsy(contrasena) THEN LoginError(400, ErrLoginCampos)
  ELSE IF Len(contrasena) < 8 THEN LoginError(400, ErrLoginCorta)
  ELSE IF /\ obtener_usuario_por_nombre_usuario(db, nombre_usuario) = NoId
          /\ obtener_usuario_por_email(db, nombre_usuario) = NoId
    THEN LoginError(404, "Usuario no encontrado")
  ELSE LET usuario == autenticar_usuario(db, nombre_usuario, contrasena)
       IN IF usuario = NoId THEN LoginError(401, ErrCredenciales)
          ELSE TokenResponse(db, usuario)

\* login authenticating without the activo test
login_ignora_activo(db, nombre_usuario, contrasena) ==
  IF Falsy(nombre_usuario) \/ Falsy(contrasena) THEN LoginError(400, ErrLoginCampos)
  ELSE IF Len(contrasena) < 8 THEN LoginError(400, ErrLoginCorta)
  ELSE LET usuario == autenticar_usuario_sin_activo(db, nombre_usuario, contrasena)
       IN IF usuario = NoId THEN LoginError(401, ErrCredenciales)
          ELSE TokenResponse(db, usuario)

\* login authenticating first and checking the fields afterwards
login_busca_primero(db, nombre_usuario, contrasena) ==
  LET usuario == autenticar_usuario(db, nombre_usuario, contrasena)
  IN IF usuario = NoId THEN LoginError(401, ErrCredenciales)
     ELSE IF Falsy(nombre_usuario) \/ Falsy(contrasena) THEN LoginError(400, ErrLoginCampos)
     ELSE IF Len(contrasena) < 8 THEN LoginError(400, ErrLoginCorta)
     ELSE TokenResponse(db, usuario)

\* POST /auth/login: status, detail, account and token of the response
login(db, nombre_usuario, contrasena) ==
  IF Falsy(nombre_usuario) \/ Falsy(contrasena) THEN LoginError(400, ErrLoginCampos)
  ELSE IF Len(contrasena) < 8 THEN LoginError(400, ErrLoginCorta)
  ELSE LET usuario == autenticar_usuario(db, nombre_usuario, contrasena)
       IN IF usuario = NoId THEN LoginError(401, ErrCredenciales)
          ELSE TokenResponse(db, usuario)

Login ==
  /\ \E ident \in Identificadores, clave \in Contrasenas :
       LET r == login(usuarios, ident, clave)
       IN ultimo' = [op |-> "login", status |-> r.status, error |-> "", id |-> r.id,
                     access_token |-> r.access_token]
  /\ UNCHANGED <<usuarios, nextId, pc, req, reloj, tokenCliente, partidas>>

\* PUT /usuarios/{usuario_id}
Put(cuerpos) ==
  /\ \E id \in IdsPedidos(usuarios), body \in cuerpos :
     \E salt \in SaltsSi("contrasena" \in DOMAIN body) :
       IF obtener_usuario(usuarios, id) = NoId
         THEN /\ ultimo' = Respuesta("put", 404, "", NoId)
              /\ UNCHANGED usuarios
       ELSE IF DOMAIN body = {}
         THEN /\ ultimo' = Respuesta("put", 200, "", NoId)
              /\ UNCHANGED usuarios
       ELSE LET r == actualizar_usuario(usuarios, id, body, salt)
            IN /\ usuarios' = r.db
               /\ ultimo' = Respuesta("put",
                                IF r.error = "" THEN 200 ELSE StatusDe(r.error),
                                r.error, NoId)
  /\ UNCHANGED <<nextId, pc, req, reloj, tokenCliente, partidas>>

PutUsuario == Put(CuerposPut)

\* PUT /usuarios/{usuario_id} renaming the account
PutNombreUsuario == Put({[nombre_usuario |-> AbcLinea]})

\* UsuarioCRUD.actualizar_usuario called with a new email or a new username
ActualizarUsuario ==
  /\ \E id \in IdsPedidos(usuarios), kwargs \in KwargsCarrera :
     \E salt \in SaltsSi(/\ "contrasena" \in DOMAIN kwargs
                         /\ actualizar_usuario(usuarios, id, kwargs, "").id # NoId) :
       LET r == actualizar_usuario(usuarios, id, kwargs, salt)
       IN /\ usuarios' = r.db
          /\ ultimo' = Respuesta("actualizar_usuario", 0, r.error, NoId)
  /\ UNCHANGED <<nextId, pc, req, reloj, tokenCliente, partidas>>

\* PATCH /usuarios/{usuario_id}/desactivar
DesactivarUsuario ==
  /\ \E id \in IdsPedidos(usuarios) :
       LET r == desactivar_usuario(usuarios, id, "")
       IN /\ usuarios' = r.db
          /\ ultimo' = IF r.error # ""
                         THEN Respuesta("desactivar", 500, r.error, NoId)
                       ELSE IF r.id = NoId
                         THEN Respuesta("desactivar", 404, "", NoId)
                       ELSE Respuesta("desactivar", 200, "", NoId)
  /\ UNCHANGED <<nextId, pc, req, reloj, tokenCliente, partidas>>

\* POST /usuarios/{usuario_id}/cambiar-contrasena
CambiarContrasena ==
  /\ \E id \in IdsPedidos(usuarios), actual \in {Clave1, Clave2}, nueva \in {Clave2, ClaveCorta} :
     \E salt \in SaltsSi(cambiar_contrasena(usuarios, id, actual, nueva, "").id # NoId) :
       IF obtener_usuario(usuarios, id) = NoId
         THEN /\ ultimo' = Respuesta("cambiar_contrasena", 404, "", NoId)
              /\ UNCHANGED usuarios
       ELSE LET r == cambiar_contrasena(usuarios, id, actual, nueva, salt)
            IN /\ usuarios' = r.db
               /\ ultimo' = IF r.error # ""
                              THEN Respuesta("cambiar_contrasena", StatusDe(r.error),
                                             r.error, NoId)
                            ELSE IF r.id = NoId
                              THEN Respuesta("cambiar_contrasena", 500, "", NoId)
                            ELSE Respuesta("cambiar_contrasena", 200, "", NoId)
  /\ UNCHANGED <<nextId, pc, req, reloj, tokenCliente, partidas>>

\* DELETE /usuarios/{usuario_id}
EliminarUsuario ==
  /\ \E id \in IdsPedidos(usuarios) :
       IF obtener_usuario(usuarios, id) = NoId
         THEN /\ ultimo' = Respuesta("eliminar", 404, "", NoId)
              /\ UNCHANGED usuarios
       ELSE LET r == eliminar_usuario(usuarios, id)
            IN /\ usuarios' = r.db
               /\ ultimo' = Respuesta("eliminar", IF r.id # NoId THEN 200 ELSE 500,
                                       "", NoId)
  /\ UNCHANGED <<nextId, pc, req, reloj, tokenCliente, partidas>>

Next ==
  \/ Registro
  \/ CrearAdmin
  \/ Login
  \/ PutUsuario
  \/ DesactivarUsuario
  \/ CambiarContrasena
  \/ EliminarUsuario

Spec == Init /\ [][Next]_vars

\* ------------------------------- requests inside crear_usuario at once
\* an id is left for every call already inside crear_usuario and one more
HayIds == nextId + Cardinality({q \in Procs : pc[q] # "idle"}) <= MaxId

Termina(p, resp) ==
  /\ pc' = [pc EXCEPT ![p] = "idle"]
  /\ req' = [req EXCEPT ![p] = SinReq]
  /\ ultimo' = resp

\* a request arrives at POST /auth/registro
LlegaCrear(p) ==
  /\ pc[p] = "idle"
  /\ HayIds
  /\ \E body \in CuerposCarrera :
       req' = [req EXCEPT ![p] = [ruta |-> "registro",
                                  args |-> [body EXCEPT !.es_admin = FALSE]]]
  /\ pc' = [pc EXCEPT ![p] = "crear_usuario"]
  /\ UNCHANGED <<usuarios, nextId, ultimo, reloj, tokenCliente, partidas>>

\* POST /auth/crear-admin up to the call of crear_usuario
LlegaCrearAdmin(p) ==
  /\ pc[p] = "idle"
  /\ HayIds
  /\ UNCHANGED <<usuarios, nextId, reloj, tokenCliente, partidas>>
  /\ LET admin_existente == obtener_admin_por_defecto(usuarios)
     IN IF admin_existente # NoId
          THEN Termina(p, Respuesta("crear_admin", 200, "", admin_existente))
          ELSE /\ \E clave \in ClavesGeneradas :
                    req' = [req EXCEPT ![p] =
                              [ruta |-> "crear_admin", args |-> ArgsAdmin(clave)]]
               /\ pc' = [pc EXCEPT ![p] = "crear_usuario"]
               /\ UNCHANGED ultimo

\* crear_usuario lines 47-59: name, username format, username lookup
CrearNombreUsuario(p) ==
  /\ pc[p] = "crear_usuario"
  /\ UNCHANGED <<usuarios, nextId, reloj, tokenCliente, partidas>>
  /\ LET err == CrearErrorNombreUsuario(usuarios, req[p].args)
     IN IF err # ""
          THEN Termina(p, RespuestaCrear(req[p].ruta,
                                         Resultado(usuarios, "ValueError", err, NoId)))
          ELSE /\ pc' = [pc EXCEPT ![p] = "crear_email"]
               /\ UNCHANGED <<req, ultimo>>

\* crear_usuario lines 61-65: email format, email lookup
CrearEmail(p) ==
  /\ pc[p] = "crear_email"
  /\ UNCHANGED <<usuarios, nextId, reloj, tokenCliente, partidas>>
  /\ LET err == CrearErrorEmail(usuarios, req[p].args)
     IN IF err # ""
          THEN Termina(p, RespuestaCrear(req[p].ruta,
                                         Resultado(usuarios, "ValueError", err, NoId)))
          ELSE /\ pc' = [pc EXCEPT ![p] = "crear_commit"]
               /\ UNCHANGED <<req, ultimo>>

\* crear_usuario lines 67-92: password and phone checks, hash, INSERT, commit
CrearCommit(p) ==
  /\ pc[p] = "crear_commit"
  /\ UNCHANGED <<reloj, tokenCliente, partidas>>
  /\ \E salt \in SaltsSi(CrearErrorContrasena(req[p].args) = "") :
       LET err == CrearErrorContrasena(req[p].args)
           r == IF err # ""
                  THEN Resultado(usuarios, "ValueError", err, NoId)
                  ELSE Insertar(usuarios, nextId, NuevoUsuario(req[p].args, salt))
       IN /\ usuarios' = r.db
          /\ nextId' = IF r.id # NoId THEN nextId + 1 ELSE nextId
          /\ Termina(p, RespuestaCrear(req[p].ruta, r))

NextCarrera ==
  \/ \E p \in Procs : LlegaCrear(p)
  \/ \E p \in Procs : LlegaCrearAdmin(p)
  \/ \E p \in Procs : CrearNombreUsuario(p)
  \/ \E p \in Procs : CrearEmail(p)
  \/ \E p \in Procs : CrearCommit(p)
  \/ ActualizarUsuario
  \/ DesactivarUsuario
  \/ EliminarUsuario

SpecCarrera == Init /\ [][NextCarrera]_vars

\* ------------------------------------------- tokens in a client's hands
\* the instants of the clock (minutes) that are told apart: the start, a
\* minute later, the lifetime of a token later, and a minute after that
Instantes == {0, 1, ACCESS_TOKEN_EXPIRE_MINUTES, ACCESS_TOKEN_EXPIRE_MINUTES + 1}

\* time passes
Tictac ==
  /\ \E t \in Instantes :
       /\ t > reloj
       /\ reloj' = t
  /\ UNCHANGED <<usuarios, nextId, pc, req, ultimo, tokenCliente, partidas>>

\* the client keeps the token of the login response it has just received
ClienteGuarda ==
  /\ ultimo.op = "login" /\ ultimo.status = 200
  /\ tokenCliente' = ultimo.access_token
  /\ UNCHANGED <<usuarios, nextId, pc, req, ultimo, reloj, partidas>>

\* TokenManager.create_access_token called with no expires_delta, with a
\* zero one and with one minute, on claims with and without keys of the
\* issuer's own; the caller keeps the token
DatosLlamada ==
  {[sub |-> Abc, user_id |-> 1],
   [sub |-> Abc, user_id |-> 1, exp |-> 7, iat |-> 7, type |-> "refresh"],
   [sub |-> Abc], [user_id |-> 1], [sub |-> <<>>, user_id |-> 0]}

CrearToken ==
  /\ \E data \in DatosLlamada, expires_delta \in {NoDelta, <<0>>, <<1>>} :
       LET r == create_access_token_llamada(data, expires_delta, reloj)
       IN /\ tokenCliente' = r.ret
          /\ ultimo' = [op |-> "create_access_token", expires_delta |-> expires_delta,
                        data |-> data, data_despues |-> r.data]
  /\ UNCHANGED <<usuarios, nextId, pc, req, reloj, partidas>>

\* what a client may present: the token it holds, that token with a claim
\* changed, its claims signed under another key, a string that is no JWT
Presentados ==
  [held |-> tokenCliente,
   tampered |-> [tokenCliente EXCEPT !.claims = [sub |-> Nadie] @@ tokenCliente.claims],
   resigned |-> jwt_encode(tokenCliente.claims, "otra"),
   malformed |-> TokenMalformado]

\* TokenManager.verify_token on a presented token
VerificarToken ==
  /\ \E v \in DOMAIN Presentados : \E r \in verify_token(Presentados[v], reloj) :
       ultimo' = [op |-> "verify_token", presentado |-> v, exc |-> r.exc,
                  payload |-> r.payload]
  /\ UNCHANGED <<usuarios, nextId, pc, req, reloj, tokenCliente, partidas>>

\* TokenManager.get_user_id_from_token on a presented token
GetUserIdFromToken ==
  /\ \E v \in DOMAIN Presentados :
     \E r \in get_user_id_from_token(Presentados[v], reloj) :
       ultimo' = [op |-> "get_user_id_from_token", presentado |-> v,
                  exc |-> r.exc, user_id |-> r.user_id]
  /\ UNCHANGED <<usuarios, nextId, pc, req, reloj, tokenCliente, partidas>>

\* TokenManager.get_username_from_token on a presented token
GetUsernameFromToken ==
  /\ \E v \in DOMAIN Presentados :
     \E r \in get_username_from_token(Presentados[v], reloj) :
       ultimo' = [op |-> "get_username_from_token", presentado |-> v,
                  exc |-> r.exc, username |-> r.username]
  /\ UNCHANGED <<usuarios, nextId, pc, req, reloj, tokenCliente, partidas>>

NextToken ==
  \/ CrearAdmin
  \/ Login
  \/ ClienteGuarda
  \/ VerificarToken
  \/ Tictac
  \/ PutNombreUsuario
  \/ DesactivarUsuario
  \/ EliminarUsuario

SpecToken == Init /\ [][NextToken]_vars

\* TokenManager called directly while time passes
NextEmision ==
  \/ CrearToken
  \/ VerificarToken
  \/ GetUserIdFromToken
  \/ GetUsernameFromToken
  \/ Tictac

SpecEmision == Init /\ [][NextEmision]_vars

\* accounts registered, deactivated and reactivated while time passes
NextSellos ==
  \/ Registro
  \/ DesactivarUsuario
  \/ PutUsuario
  \/ Tictac

SpecSellos == Init /\ [][NextSellos]_vars

\* --------------------------------------- PasswordManager called directly
\* a plaintext longer than one SHA-256 block
ClaveLarga == [i \in 1..(BlockSize + 1) |-> IF i = 1 THEN "a" ELSE "A"]

\* plaintexts: strong, weak, empty, with a ':' inside, with a trailing U+0000
Textos ==
  {Clave1, Clave2, ClaveCorta, <<>>, <<"A","b",":","d","e","f","1","!">>,
   Clave1 \o <<Nul>>, ClaveLarga}

\* stored strings that are not salt:digest with exactly one ':'
Malformados ==
  {None, <<>>, <<"5f1c">>, <<"5f1c", ":", "x", ":", "y">>, <<":", ":">>}

\* PasswordManager.hash_password(password)
HashPassword ==
  /\ \E password \in Textos, salt \in Salts :
       ultimo' = [op |-> "hash_password", password |-> password,
                  ret |-> HashWithSalt(password, salt)]
  /\ UNCHANGED <<usuarios, nextId, pc, req, reloj, tokenCliente, partidas>>

\* PasswordManager.verify_password(password, password_hash) on a malformed
\* stored string, on ":" and on the value hash_password has just returned
VerifyPassword ==
  /\ \E password \in Textos :
     \E password_hash \in Malformados \cup {<<":">>}
                          \cup (IF ultimo.op = "hash_password" THEN {ultimo.ret} ELSE {}) :
       ultimo' = [op |-> "verify_password", password |-> password,
                  password_hash |-> password_hash,
                  original |-> IF password_hash \in Malformados \cup {<<":">>}
                                 THEN None ELSE ultimo.password,
                  exc |-> verify_password_resultado(password, password_hash).exc,
                  ret |-> verify_password(password, password_hash)]
  /\ UNCHANGED <<usuarios, nextId, pc, req, reloj, tokenCliente, partidas>>

\* plaintexts around each rule of validate_password_strength: of 7, 8, 128
\* and 129 characters, and lacking one or two of the character classes
ClaveDe(n) == [i \in 1..n |-> IF i = 1 THEN "a" ELSE IF i = 2 THEN "1"
                                 ELSE IF i = 3 THEN "!" ELSE "A"]

TextosFortaleza ==
  Textos \cup
  {ClaveDe(7), ClaveDe(8), ClaveDe(128), ClaveDe(129),
   <<"a","b","c","d","e","f","1","!">>, <<"A","B","C","D","E","F","1","!">>,
   <<"A","b","c","d","e","f","g","!">>, <<"A","b","c","d","e","f","1","2">>,
   <<"A","B","C","D","E","F","G","!">>, <<"a","b","c","d","e","f","g","h">>,
   <<"A","b","c","d","e","f","1"," ">>}

\* PasswordManager.validate_password_strength(password)
ValidatePasswordStrength ==
  /\ \E password \in TextosFortaleza :
       ultimo' = [op |-> "validate_password_strength", password |-> password,
                  es_valida |-> validate_password_strength(password)[1],
                  mensaje |-> validate_password_strength(password)[2]]
  /\ UNCHANGED <<usuarios, nextId, pc, req, reloj, tokenCliente, partidas>>

NextPassword ==
  \/ HashPassword
  \/ VerifyPassword
  \/ ValidatePasswordStrength

SpecPassword == Init /\ [][NextPassword]_vars

\* ------------------------------------------------------------- partidas
\* a row of the partidas table: its estado and premio_id (NoId for NULL)
Estados == {"en_curso", "ganada"}
FilasPartida == [estado : Estados, premio_id : {NoId, 1}]

\* PartidaCRUD.obtener_por_id
PartidaCRUD_obtener_por_id(db, partida_id) ==
  IF partida_id \in DOMAIN db THEN partida_id ELSE NoId

\* PartidaCRUD.actualizar_partida(db, partida_id, **campos): a keyword other
\* than estado and premio_id is a TypeError of the call
PartidaCRUD_actualizar_partida(db, partida_id, campos) ==
  IF ~(DOMAIN campos \subseteq {"estado", "premio_id"})
    THEN Resultado(db, "TypeError", "", NoId)
  ELSE IF partida_id \notin DOMAIN db THEN Resultado(db, "", "", NoId)
  ELSE Resultado([db EXCEPT ![partida_id] = campos @@ @], "", "", partida_id)

\* PartidaCRUD.eliminar_partida
PartidaCRUD_eliminar_partida(db, partida_id) ==
  IF partida_id \notin DOMAIN db THEN Resultado(db, "", "", NoId)
  ELSE Resultado([i \in DOMAIN db \ {partida_id} |-> db[i]], "", "", partida_id)

\* raise HTTPException(status_code=status) inside the try block of a route
HTTPException(db, status) == Resultado(db, "HTTPException", "", status)

\* "except Exception as e: raise HTTPException(status_code=500, ...)" around
\* the body of a partida route: the status answered for what the body did
\* (id holds the status of a raised HTTPException); HTTPException is an
\* Exception
ExceptException(r, exito) == IF r.error # "" THEN 500 ELSE exito

\* GET /partidas/{partida_id}, the try block
obtener_partida(db, partida_id) ==
  IF PartidaCRUD_obtener_por_id(db, partida_id) = NoId
    THEN HTTPException(db, 404)
    ELSE Resultado(db, "", "", partida_id)

\* POST /partidas/, the try block: PartidaCRUD.crear_partida is an instance
\* method called on the class, so the session is bound to self and
\* self.db.add raises AttributeError before anything is added
crear_partida(db) == Resultado(db, "AttributeError", "", NoId)

\* PUT /partidas/{partida_id}, the try block
actualizar_partida(db, partida_id, campos) ==
  IF PartidaCRUD_obtener_por_id(db, partida_id) = NoId
    THEN HTTPException(db, 404)
    ELSE PartidaCRUD_actualizar_partida(db, partida_id, campos)

\* DELETE /partidas/{partida_id}, the try block
eliminar_partida(db, partida_id) ==
  IF PartidaCRUD_obtener_por_id(db, partida_id) = NoId
    THEN HTTPException(db, 404)
    ELSE LET r == PartidaCRUD_eliminar_partida(db, partida_id)
         IN IF r.id # NoId THEN r ELSE HTTPException(db, 500)

\* PartidaUpdate bodies with the null fields left out
CuerposPartida ==
  {<<>>, [estado |-> "ganada"], [premio_id |-> 1], [costo_apuesta |-> 5]}

\* a partida request r of route op for partida_id is answered
RespondePartida(op, r, exito, partida_id) ==
  /\ partidas' = r.db
  /\ ultimo' = Respuesta(op, ExceptException(r, exito), r.error, partida_id)
  /\ UNCHANGED <<usuarios, nextId, pc, req, reloj, tokenCliente>>

ObtenerPartida ==
  \E partida_id \in IdsPedidos(partidas) :
    RespondePartida("obtener_partida", obtener_partida(partidas, partida_id),
                    200, partida_id)

CrearPartida ==
  RespondePartida("crear_partida", crear_partida(partidas), 201, NoId)

ActualizarPartida ==
  \E partida_id \in IdsPedidos(partidas), campos \in CuerposPartida :
    RespondePartida("actualizar_partida",
                    actualizar_partida(partidas, partida_id, campos),
                    200, partida_id)

EliminarPartida ==
  \E partida_id \in IdsPedidos(partidas) :
    RespondePartida("eliminar_partida", eliminar_partida(partidas, partida_id),
                    200, partida_id)

\* the partidas table holds the rows that were in the database when the
\* service started (POST /partidas/ adds none)
InitPartida ==
  /\ usuarios = <<>>
  /\ nextId = 1
  /\ pc = [p \in Procs |-> "idle"]
  /\ req = [p \in Procs |-> SinReq]
  /\ ultimo = Respuesta("", 0, "", NoId)
  /\ reloj = 0
  /\ tokenCliente = NoToken
  /\ \E n \in 0..MaxId : partidas \in [1..n -> FilasPartida]

NextPartida ==
  \/ ObtenerPartida
  \/ CrearPartida
  \/ ActualizarPartida
  \/ EliminarPartida

SpecPartida == InitPartida /\ [][NextPartida]_vars

\* ------------------------------------------------------------ the claims
\* identifiers and passwords the claims about authentication range over
IdentificadoresPrueba ==
  {Abc, AbcMayus, <<" ">> \o AbcMayus \o <<" ">>, EmailA, EmailAMayus, EmailAEspacio,
   AdminUsername, AdminEmail, Nadie, <<>>}

ContrasenasPrueba == Contrasenas \cup ClavesGeneradas

\* C1: on the store a login request has just been served from,
\* autenticar_usuario(identifier, password) returns an account exactly when
\* some stored account has the lower-cased, trimmed identifier as its
\* username or email, is active and verifies the password; the account it
\* returns is such an account, and in every other case it returns None.
C1_AutenticarSiYSoloSi ==
  ultimo.op = "login" =>
  \A ident \in IdentificadoresPrueba, clave \in ContrasenasPrueba :
    LET buscado == Strip(Lower(ident))
        Cumple(i) ==
          /\ usuarios[i].nombre_usuario = buscado \/ usuarios[i].email = buscado
          /\ usuarios[i].activo
          /\ verify_password(clave, usuarios[i].contrasena_hash)
        r == autenticar_usuario(usuarios, ident, clave)
    IN /\ r # NoId <=> \E i \in DOMAIN usuarios : Cumple(i)
       /\ r # NoId => r \in DOMAIN usuarios /\ Cumple(r)

\* a login was just answered 200 for a stored account while another stored
\* account, inactive, is refused with its own password
C1_Testigo ==
  /\ ultimo.op = "login" /\ ultimo.status = 200 /\ ultimo.id \in DOMAIN usuarios
  /\ \E i \in DOMAIN usuarios :
       /\ ~usuarios[i].activo
       /\ verify_password(Clave1, usuarios[i].contrasena_hash)
       /\ autenticar_usuario(usuarios, usuarios[i].nombre_usuario, Clave1) = NoId

\* C2: a failed authentication does not tell whether the identifier exists:
\* autenticar_usuario returns None and POST /auth/login answers 401 with one
\* detail for an unknown identifier, a wrong password and an inactive
\* account, so the store with an account and the store without it give the
\* same response to every login that fails in both.
C2_FalloUniforme ==
  ultimo.op = "login" =>
  \A ident \in IdentificadoresPrueba, clave \in ContrasenasPrueba :
    LET con == login(usuarios, ident, clave)
    IN /\ (~Falsy(ident) /\ Len(clave) >= 8
            /\ autenticar_usuario(usuarios, ident, clave) = NoId)
          => (con.status = 401 /\ con.detail = ErrCredenciales)
       /\ \A i \in DOMAIN usuarios :
            LET sin == login([j \in DOMAIN usuarios \ {i} |-> usuarios[j]], ident, clave)
            IN (con.status # 200 /\ sin.status # 200)
                 => (con.status = sin.status /\ con.detail = sin.detail)

\* a login was just answered 401 in a store where an active account given a
\* wrong password, an inactive account given its password and an unknown
\* identifier are all refused
C2_Testigo ==
  /\ ultimo.op = "login" /\ ultimo.status = 401
  /\ \E i, j \in DOMAIN usuarios :
       /\ usuarios[i].activo
       /\ ~verify_password(Clave2, usuarios[i].contrasena_hash)
       /\ login(usuarios, usuarios[i].nombre_usuario, Clave2).status = 401
       /\ ~usuarios[j].activo
       /\ verify_password(Clave1, usuarios[j].contrasena_hash)
       /\ login(usuarios, usuarios[j].email, Clave1).status = 401
  /\ login(usuarios, Nadie, Clave1).status = 401

\* C3 as stated: once an account is inactive no step makes it active again.
C3_SinReactivacion ==
  [][\A i \in DOMAIN usuarios \cap DOMAIN usuarios' :
       ~usuarios[i].activo => ~usuarios'[i].activo]_vars

\* C3, amended: the only step that makes an inactive account active again is
\* PUT /usuarios/{id} answered 200, and the store it leaves is the one
\* actualizar_usuario(id, activo=True) gives; registro, crear-admin, login,
\* desactivar, cambiar-contrasena and DELETE never reactivate an account.
C3_SoloPutReactiva ==
  [][(\E i \in DOMAIN usuarios \cap DOMAIN usuarios' :
        ~usuarios[i].activo /\ usuarios'[i].activo)
      => /\ ultimo'.op = "put" /\ ultimo'.status = 200
         /\ \E id \in DOMAIN usuarios :
              /\ ~usuarios[id].activo
              /\ usuarios' = actualizar_usuario(usuarios, id, [activo |-> TRUE], "").db]_vars

\* a password change was just served and left an inactive account inactive,
\* an account that actualizar_usuario(id, activo=True) would reactivate
C3_Testigo ==
  /\ ultimo.op = "cambiar_contrasena" /\ ultimo.status = 200
  /\ \E i \in DOMAIN usuarios :
       /\ ~usuarios[i].activo
       /\ verify_password(Clave2, usuarios[i].contrasena_hash)
       /\ actualizar_usuario(usuarios, i, [activo |-> TRUE], "").db[i].activo

\* C4: no two distinct stored accounts share a nombre_usuario, and no two
\* share an email, in any state reached by registrations (also concurrent
\* ones), actualizar_usuario, desactivar_usuario and eliminar_usuario calls;
\* a cambiar_contrasena call on such a state leaves every nombre_usuario and
\* every email as it was.
C4_Unicidad ==
  /\ \A i, j \in DOMAIN usuarios :
       i # j => /\ usuarios[i].nombre_usuario # usuarios[j].nombre_usuario
                /\ usuarios[i].email # usuarios[j].email
  /\ \A id \in DOMAIN usuarios, actual \in {Clave1, Clave2} :
       LET db == cambiar_contrasena(usuarios, id, actual, Clave2, "5f1c").db
       IN /\ DOMAIN db = DOMAIN usuarios
          /\ \A i \in DOMAIN db :
               /\ db[i].nombre_usuario = usuarios[i].nombre_usuario
               /\ db[i].email = usuarios[i].email

\* two accounts are stored and actualizar_usuario has just refused to give
\* one of them the username or the email of the other
C4_Testigo ==
  /\ Cardinality(DOMAIN usuarios) = 2
  /\ ultimo.op = "actualizar_usuario" /\ ultimo.error = "ValueError"

\* the normalized username and email a crear_usuario call would store
Normalizado(a) ==
  [nombre_usuario |-> Lower(Strip(a.nombre_usuario)), email |-> Lower(Strip(a.email))]

\* C5: when a crear_usuario call that passed both lookups and the password
\* and phone checks reaches its commit and an account with its normalized
\* username or email has been stored in the meantime, the commit is
\* rejected by the unique index and nothing is written; whatever the interleaving, the store after a commit has no two
\* accounts with one username or one email.
C5_CarreraUnaGana ==
  [][\A p \in Procs :
       (pc[p] = "crear_commit" /\ pc'[p] = "idle")
       => /\ (/\ CrearErrorContrasena(req[p].args) = ""
              /\ \E j \in DOMAIN usuarios :
                   \/ usuarios[j].nombre_usuario = Normalizado(req[p].args).nombre_usuario
                   \/ usuarios[j].email = Normalizado(req[p].args).email)
             => (usuarios' = usuarios /\ ultimo'.error = "IntegrityError")
          /\ Cardinality(DOMAIN usuarios') <= Cardinality(DOMAIN usuarios) + 1
          /\ \A i, j \in DOMAIN usuarios' :
               i # j => /\ usuarios'[i].nombre_usuario # usuarios'[j].nombre_usuario
                        /\ usuarios'[i].email # usuarios'[j].email]_vars

\* a registration that had passed both lookups was just rejected at its
\* commit by the unique index: the account that won the race is stored
C5_Testigo ==
  /\ ultimo.op = "registro" /\ ultimo.error = "IntegrityError"
  /\ usuarios # <<>>

\* C6 as stated: a POST /auth/registro rejected because its username or email
\* is taken is answered 400 in every interleaving; 500 is answered only for
\* failures that are neither validation nor uniqueness failures.
C6_Registro400 ==
  ultimo.op = "registro"
    => /\ ultimo.error \in {"ValueError", "IntegrityError"} => ultimo.status = 400
       /\ ultimo.status = 500 => ultimo.error \notin {"ValueError", "IntegrityError"}

\* emails that differ from EmailA in letter case or surrounding whitespace
VariantesSoloCaja == {EmailAMayus, <<"a","@","X",".","C","O">>}
VariantesUnaLinea == {EmailALinea, EmailAMayus \o <<"\n">>}
VariantesEspacio ==
  {EmailAEspacio, EmailA \o <<" ">>, <<" ">> \o EmailAMayus \o <<" ">>,
   <<"\n">> \o EmailA, EmailA \o <<"\n","\n">>, EmailA \o <<"\t">>}

\* usernames that differ from Abc in letter case
VariantesUsuario == {AbcMayus, <<"A","b","c">>, <<"a","b","C">>}

\* crear_usuario called on the current store for a body with username u and
\* email e, everything else valid
CrearCon(u, e) == crear_usuario(usuarios, Valido(u, e, Clave1), "5f1c", nextId)

EmailAGuardado == \E i \in DOMAIN usuarios : usuarios[i].email = EmailA
AbcGuardado == \E i \in DOMAIN usuarios : usuarios[i].nombre_usuario = Abc
AdminLibre == \A i \in DOMAIN usuarios : usuarios[i].nombre_usuario # AdminUsername

\* C7 as stated: with EmailA stored, a crear_usuario whose email differs from
\* it only in letter case or surrounding whitespace, with a free username and
\* valid other fields, fails with the uniqueness error and stores nothing;
\* the same for usernames differing only in case.
C7_VarianteRechazadaPorUnicidad ==
  ultimo.op = "registro" =>
    /\ (EmailAGuardado /\ AdminLibre) =>
         \A e \in VariantesSoloCaja \cup VariantesUnaLinea \cup VariantesEspacio :
           /\ CrearCon(AdminUsername, e).error = "ValueError"
           /\ CrearCon(AdminUsername, e).detail = ErrEmailRegistrado
           /\ CrearCon(AdminUsername, e).db = usuarios
    /\ AbcGuardado =>
         \A u \in VariantesUsuario :
           /\ CrearCon(u, AdminEmail).error = "ValueError"
           /\ CrearCon(u, AdminEmail).detail = ErrUsuarioRegistrado
           /\ CrearCon(u, AdminEmail).db = usuarios

\* C7, amended: with EmailA stored, a crear_usuario with a free username and
\* valid other fields stores nothing when its email differs from EmailA only
\* in letter case or surrounding whitespace; it fails with the uniqueness
\* error when the difference is letter case or one trailing newline, and
\* with "Email invalido" for any other surrounding whitespace.  A username
\* differing only in case from a stored one fails with the username
\* uniqueness error and stores nothing.
C7_VarianteRechazada ==
  ultimo.op = "registro" =>
    /\ (EmailAGuardado /\ AdminLibre) =>
         /\ \A e \in VariantesSoloCaja \cup VariantesUnaLinea :
              /\ CrearCon(AdminUsername, e).error = "ValueError"
              /\ CrearCon(AdminUsername, e).detail = ErrEmailRegistrado
              /\ CrearCon(AdminUsername, e).db = usuarios
         /\ \A e \in VariantesEspacio :
              /\ CrearCon(AdminUsername, e).error = "ValueError"
              /\ CrearCon(AdminUsername, e).detail = ErrEmailInvalido
              /\ CrearCon(AdminUsername, e).db = usuarios
    /\ AbcGuardado =>
         \A u \in VariantesUsuario :
           /\ CrearCon(u, AdminEmail).error = "ValueError"
           /\ CrearCon(u, AdminEmail).detail = ErrUsuarioRegistrado
           /\ CrearCon(u, AdminEmail).db = usuarios

\* a registration was just answered 400 on a store that holds EmailA and
\* username abc while username admin is free
C7_Testigo ==
  /\ ultimo.op = "registro" /\ ultimo.status = 400
  /\ EmailAGuardado /\ AbcGuardado /\ AdminLibre
  /\ CrearCon(AdminUsername, EmailAMayus).detail = ErrEmailRegistrado

\* bodies with one fault each: blank name, short username, bad email, no
\* password, weak password, bad phone
CuerposMalos ==
  {[Valido(AdminUsername, AdminEmail, Clave1) EXCEPT !.nombre = <<" ">>],
   Valido(Ab, AdminEmail, Clave1),
   Valido(AdminUsername, EmailMalo, Clave1),
   Valido(AdminUsername, AdminEmail, <<>>),
   Valido(AdminUsername, AdminEmail, ClaveCorta),
   [Valido(AdminUsername, AdminEmail, Clave1) EXCEPT !.telefono = TelMalo]}

\* keyword arguments with one fault each, after a field that passes
KwargsMalos ==
  {[email |-> EmailMalo], [email |-> AdminEmail, nombre_usuario |-> Ab],
   [email |-> AdminEmail, nombre |-> <<" ">>],
   [email |-> AdminEmail, telefono |-> TelMalo],
   [email |-> AdminEmail, contrasena |-> ClaveCorta]}

\* C8: on the store a PUT /usuarios/{id} has just been served from, every
\* crear_usuario and every actualizar_usuario call that raises a validation
\* error returns the store exactly as it was; the calls with a blank name, a
\* bad or taken username, a bad or taken email, a missing or weak password
\* or a bad phone all raise one.
C8_ErrorSinEscritura ==
  ultimo.op = "put" =>
    /\ \A body \in CuerposMalos \cup CuerposCrear :
         LET r == crear_usuario(usuarios, body, "5f1c", nextId)
         IN /\ body \in CuerposMalos => r.error = "ValueError"
            /\ r.error = "ValueError" => r.db = usuarios
    /\ \A id \in DOMAIN usuarios :
       \A kwargs \in KwargsMalos \cup KwargsCarrera \cup KwargsCrud :
         LET r == actualizar_usuario(usuarios, id, kwargs, "5f1c")
         IN /\ kwargs \in KwargsMalos => r.error = "ValueError"
            /\ r.error = "ValueError" => r.db = usuarios

\* a PUT was just answered 400 for an account whose new email passes its
\* checks while the new username fails its own
C8_Testigo ==
  /\ ultimo.op = "put" /\ ultimo.error = "ValueError"
  /\ \E i \in DOMAIN usuarios :
       /\ usuarios[i].email # AdminEmail
       /\ ActualizarError(usuarios, i, [email |-> AdminEmail, nombre_usuario |-> Ab])
            = ErrUsuarioFormato

\* C9: the stored nombre_usuario and email of every account equal their own
\* lower-cased, trimmed value, and the stored username is 3 to 20 characters
\* long, all lower-case letters, digits or underscores.
C9_Normalizados ==
  \A i \in DOMAIN usuarios :
    /\ usuarios[i].nombre_usuario = Strip(Lower(usuarios[i].nombre_usuario))
    /\ usuarios[i].email = Strip(Lower(usuarios[i].email))
    /\ Len(usuarios[i].nombre_usuario) \in 3..20
    /\ AllIn(usuarios[i].nombre_usuario, 1, Len(usuarios[i].nombre_usuario),
             LowerLetters \cup Digits \cup {"_"})

\* a PUT was just answered 200 and the default administrator, created as
\* "admin", now has the username abc that PUT gave it as "AbC\n"
C9_Testigo ==
  /\ ultimo.op = "put" /\ ultimo.status = 200
  /\ \E i \in DOMAIN usuarios :
       usuarios[i].nombre = AdminNombre /\ usuarios[i].nombre_usuario = Abc

\* h is what hash_password returns for a plaintext that passes
\* validate_password_strength
EsHashDeClaveFuerte(h) ==
  \E p \in ContrasenasPrueba, salt \in Salts :
    validate_password_strength(p)[1] /\ h = HashWithSalt(p, salt)

C11_IdaYVuelta ==
  (ultimo.op = "verify_password" /\ ultimo.original # None)
    => (ultimo.ret <=> ultimo.password = ultimo.original)

\* C12: verify_password never raises, and it returns false for every stored
\* string that is not salt:digest with exactly one ':' (no delimiter, more
\* than one, the empty string, None).
C12_NuncaLanza ==
  ultimo.op = "verify_password"
    => /\ ultimo.exc = ""
       /\ ultimo.password_hash \in Malformados => ultimo.ret = FALSE

\* verify_password has just returned false for a stored None, and would for
\* the stored strings with no ':' and with two
C12_Testigo ==
  /\ ultimo.op = "verify_password" /\ ultimo.password_hash = None
  /\ ultimo.ret = FALSE /\ ultimo.exc = ""
  /\ verify_password_try(Clave1, <<"5f1c">>).exc = "ValueError"
  /\ verify_password_try(Clave1, <<"5f1c", ":", "x", ":", "y">>).exc = "ValueError"

\* C13 as stated: a token created with a zero time-to-live fails
\* verification immediately (at the instant it was issued) with an expiry
\* error.
C13_TtlCero ==
  [][(/\ ultimo.op = "create_access_token"
      /\ ultimo.expires_delta = <<0>>
      /\ tokenCliente.claims.iat = reloj
      /\ ultimo'.op = "verify_token"
      /\ ultimo'.presentado = "held")
       => ultimo'.exc = "JWTError"]_vars

\* C14: verification depends on the token and the clock alone.  Every
\* verification of the token the client holds succeeds, returning its
\* claims, when the clock is before its exp, and fails when the clock is
\* past it, whatever has become of the account it names (deactivated,
\* renamed, deleted); a token with a changed claim, one signed under another
\* key and a string that is no JWT always fail.  (At the instant exp itself
\* the JWT library decides.)
C14_SinEstado ==
  [][(ultimo' # ultimo /\ ultimo'.op = "verify_token")
       => /\ (ultimo'.presentado = "held" /\ tokenCliente # NoToken
                /\ reloj < tokenCliente.claims.exp)
               => (ultimo'.exc = "" /\ ultimo'.payload = tokenCliente.claims)
          /\ (ultimo'.presentado = "held" /\ tokenCliente # NoToken
                /\ reloj > tokenCliente.claims.exp)
               => ultimo'.exc = "JWTError"
          /\ (ultimo'.presentado # "held" \/ tokenCliente = NoToken)
               => ultimo'.exc = "JWTError"]_vars

\* a token issued by a login has just verified although its account has
\* been deleted; the stored accounts, if any, are inactive or renamed
C14_Testigo ==
  /\ ultimo.op = "verify_token" /\ ultimo.presentado = "held" /\ ultimo.exc = ""
  /\ ultimo.payload.type = "access_token"
  /\ ultimo.payload.user_id \notin DOMAIN usuarios
  /\ ultimo.payload.sub = AdminUsername
  /\ \A i \in DOMAIN usuarios :
       ~usuarios[i].activo \/ usuarios[i].nombre_usuario # AdminUsername

\* C15 as stated, the generated password taken to be strong: every call of
\* POST /auth/crear-admin succeeds; with no default administrator stored it
\* creates exactly one account, with username admin, email admin@system.com
\* and es_admin true, and returns its id; with one stored it changes nothing
\* and returns the id of that one; afterwards the store holds exactly one
\* default administrator.
C15_Idempotente ==
  [][(ultimo'.op = "crear_admin" /\ <<usuarios, ultimo>>' # <<usuarios, ultimo>>)
       => LET antes == obtener_admin_por_defecto(usuarios)
              admins == {i \in DOMAIN usuarios' :
                           usuarios'[i].email = AdminEmail /\ usuarios'[i].es_admin}
          IN /\ ultimo'.status = 200 \/ CrearError(usuarios, ArgsAdmin(ClaveGenerada)) = ""
             /\ antes # NoId => (usuarios' = usuarios /\ ultimo'.id = antes)
             /\ (antes = NoId /\ ultimo'.status = 200)
                  => /\ ultimo'.id \notin DOMAIN usuarios
                     /\ DOMAIN usuarios' = DOMAIN usuarios \cup {ultimo'.id}
                     /\ \A i \in DOMAIN usuarios : usuarios'[i] = usuarios[i]
                     /\ usuarios'[ultimo'.id].nombre_usuario = AdminUsername
             /\ ultimo'.status = 200 => admins = {ultimo'.id}]_vars

\* C16 as stated: the password generated for the default administrator
\* passes validate_password_strength, so a POST /auth/crear-admin that finds
\* no default administrator and the username and email of one free never
\* fails: it answers 200.
C16_GeneradaFuerte ==
  [][(/\ ultimo'.op = "crear_admin" /\ ultimo' # ultimo
      /\ obtener_admin_por_defecto(usuarios) = NoId
      /\ CrearErrorNombreUsuario(usuarios, ArgsAdmin(ClaveGenerada)) = ""
      /\ CrearErrorEmail(usuarios, ArgsAdmin(ClaveGenerada)) = "")
       => ultimo'.status = 200]_vars

\* C17: on every store a login request has been served from, POST
\* /auth/login answers 400 when the identifier or the password is missing or
\* empty or the password has fewer than 8 characters, with the response it
\* gives on the empty store; otherwise it answers 401 when autenticar_usuario
\* returns None, and 200 with a bearer token for the account when it returns
\* one.
C17_LoginPrecheck ==
  ultimo.op = "login" =>
    \A ident \in IdentificadoresPrueba \cup {None},
       clave \in ContrasenasPrueba \cup {None, <<>>} :
      LET r == login(usuarios, ident, clave)
          usuario == autenticar_usuario(usuarios, ident, clave)
      IN IF Falsy(ident) \/ Falsy(clave) \/ Len(clave) < 8
           THEN r.status = 400 /\ r = login(<<>>, ident, clave)
         ELSE IF usuario = NoId
           THEN r.status = 401 /\ r.access_token = NoToken
         ELSE /\ r.status = 200 /\ r.token_type = "bearer" /\ r.id = usuario
              /\ r.access_token # NoToken
              /\ r.access_token.claims.user_id = usuario
              /\ \E v \in verify_token(r.access_token, reloj) : v.exc = ""

\* a login was just answered 400 on a store where the same identifier logs
\* in with its password and is refused with a wrong long one
C17_Testigo ==
  /\ ultimo.op = "login" /\ ultimo.status = 400
  /\ \E ident \in Identificadores :
       /\ login(usuarios, ident, Clave1).status = 200
       /\ login(usuarios, ident, Clave2).status = 401
       /\ login(usuarios, ident, ClaveCorta).status = 400

\* the credentials (ident, clave) are those of the stored account i
CredencialesDe(i, ident, clave) ==
  /\ Lower(Strip(ident)) \in {usuarios[i].nombre_usuario, usuarios[i].email}
  /\ verify_password(clave, usuarios[i].contrasena_hash)

\* C18: right after a registration answered 200, a login with the username
\* or the email and the password of the body returns 200 with a token for
\* the new account; and in every state, a login with the correct
\* credentials of an account whose activo flag is false (after a successful
\* desactivar, for as long as the flag stays false) returns 401.
C18_RegistroLoginDesactivar ==
  /\ [][(ultimo'.op = "registro" /\ ultimo'.status = 200 /\ usuarios' # usuarios)
          => \A body \in CuerposCrear :
               (\E salt \in Salts :
                  crear_usuario(usuarios, [body EXCEPT !.es_admin = FALSE],
                                salt, nextId).db = usuarios')
                 => \A ident \in {body.nombre_usuario, body.email} :
                      LET r == login(usuarios', ident, body.contrasena)
                      IN /\ r.status = 200 /\ r.id = ultimo'.id
                         /\ r.access_token # NoToken]_vars
  /\ [](\A i \in DOMAIN usuarios :
          ~usuarios[i].activo =>
            \A ident \in IdentificadoresPrueba, clave \in ContrasenasPrueba :
              CredencialesDe(i, ident, clave)
                => login(usuarios, ident, clave).status = 401)

\* a login was just refused with 401 for the correct credentials of a
\* stored account whose activo flag is false
C18_Testigo ==
  /\ ultimo.op = "login" /\ ultimo.status = 401
  /\ \E i \in DOMAIN usuarios :
       /\ ~usuarios[i].activo
       /\ \E ident \in Identificadores, clave \in Contrasenas :
            /\ CredencialesDe(i, ident, clave)
            /\ login(usuarios, ident, clave).status = 401
            /\ autenticar_usuario_sin_activo(usuarios, ident, clave) = i

\* C19 as stated: desactivar_usuario(id) gives what
\* actualizar_usuario(id, activo=False) gives; a PATCH desactivar answered
\* 200 sets activo of one stored account to false and leaves every other
\* field of it, and every other account, unchanged; one answered 404 changes
\* nothing.
C19_MarcoTodosLosCampos ==
  [][(ultimo'.op = "desactivar" /\ <<usuarios, ultimo>>' # <<usuarios, ultimo>>)
       => /\ \A id \in IdsPedidos(usuarios) :
               desactivar_usuario(usuarios, id, "")
                 = actualizar_usuario(usuarios, id, [activo |-> FALSE], "")
          /\ ultimo'.status \in {200, 404}
          /\ ultimo'.status = 404 => usuarios' = usuarios
          /\ ultimo'.status = 200
               => \E id \in DOMAIN usuarios :
                    usuarios' = [usuarios EXCEPT ![id].activo = FALSE]]_vars

\* C19, amended: as above, except that when the flag was true the account's
\* fecha_actualizacion is also set, to the time of the call; deactivating an
\* inactive account changes nothing at all.
C19_MarcoSalvoSello ==
  [][(ultimo'.op = "desactivar" /\ <<usuarios, ultimo>>' # <<usuarios, ultimo>>)
       => /\ \A id \in IdsPedidos(usuarios) :
               desactivar_usuario(usuarios, id, "")
                 = actualizar_usuario(usuarios, id, [activo |-> FALSE], "")
          /\ ultimo'.status \in {200, 404}
          /\ ultimo'.status = 404 => usuarios' = usuarios
          /\ ultimo'.status = 200
               => \E id \in DOMAIN usuarios :
                    usuarios' = [usuarios EXCEPT
                                   ![id].activo = FALSE,
                                   ![id].fecha_actualizacion =
                                      IF usuarios[id].activo THEN reloj ELSE @]]_vars

\* a PATCH desactivar was just answered 200 with two accounts stored: one is
\* inactive and was updated after it was registered, the other is active
\* and as it was registered
C19_Testigo ==
  /\ ultimo.op = "desactivar" /\ ultimo.status = 200
  /\ \E i, j \in DOMAIN usuarios :
       /\ ~usuarios[i].activo
       /\ usuarios[i].fecha_actualizacion > usuarios[i].fecha_registro
       /\ usuarios[i].fecha_actualizacion = reloj
       /\ usuarios[j].activo
       /\ usuarios[j].fecha_actualizacion = usuarios[j].fecha_registro

\* C20 as stated: a GET, PUT or DELETE /partidas/{partida_id} for an id no
\* partida has is answered 404 and changes nothing.
C20_PartidaDesconocida404 ==
  [][(/\ ultimo'.op \in {"obtener_partida", "actualizar_partida", "eliminar_partida"}
      /\ ultimo' # ultimo
      /\ ultimo'.id \notin DOMAIN partidas)
       => (ultimo'.status = 404 /\ partidas' = partidas)]_vars

\* arguments with any combination of faults: the name blank, too long or
\* good; the username malformed, taken (abc) or free; the email malformed,
\* taken (a@x.co) or free; the password missing, weak or strong; the phone
\* malformed or absent
NombreLargo == [i \in 1..101 |-> "a"]

ArgsConFaltas ==
  {[nombre |-> n, nombre_usuario |-> u, email |-> e, contrasena |-> c,
    telefono |-> t, edad |-> Edad30, saldo_inicial |-> 0, es_admin |-> FALSE] :
     n \in {<<" ">>, NombreLargo, Ana}, u \in {Ab, Abc, AdminUsername},
     e \in {EmailMalo, EmailA, AdminEmail}, c \in {<<>>, ClaveCorta, Clave1},
     t \in {TelMalo, None}}

\* the message of the first fault of a in the order name, username format,
\* username taken, email format, email taken, password present, password
\* strength, phone; "" with no fault
PrimeraFalta(a) ==
  IF a.nombre = <<" ">> THEN ErrNombreObligatorio
  ELSE IF a.nombre = NombreLargo THEN ErrNombreLargo
  ELSE IF a.nombre_usuario = Ab THEN ErrUsuarioFormato
  ELSE IF a.nombre_usuario = Abc THEN ErrUsuarioRegistrado
  ELSE IF a.email = EmailMalo THEN ErrEmailInvalido
  ELSE IF a.email = EmailA THEN ErrEmailRegistrado
  ELSE IF a.contrasena = <<>> THEN ErrContrasenaObligatoria
  ELSE IF a.contrasena = ClaveCorta THEN PrefContrasena \o MsgCorta
  ELSE IF a.telefono = TelMalo THEN ErrTelefono
  ELSE ""

\* abc and a@x.co are stored, admin and admin@system.com are free
AbcYEmailAGuardados ==
  /\ EmailAGuardado /\ AbcGuardado /\ AdminLibre
  /\ \A i \in DOMAIN usuarios : usuarios[i].email # AdminEmail

\* C21: on a store that holds username abc and email a@x.co, crear_usuario
\* called with any combination of faults raises the ValueError of the first
\* fault in the order name, username format, username uniqueness, email
\* format, email uniqueness, password present, password strength, phone
\* format, and stores nothing; with no fault it stores the account.
C21_PrimeraFalta ==
  (ultimo.op = "registro" /\ AbcYEmailAGuardados) =>
    \A a \in ArgsConFaltas :
      LET r == crear_usuario(usuarios, a, "5f1c", nextId)
      IN /\ r.detail = PrimeraFalta(a)
         /\ PrimeraFalta(a) # "" => (r.error = "ValueError" /\ r.db = usuarios)
         /\ PrimeraFalta(a) = "" => (r.error = "" /\ r.id = nextId)

\* a registration was just refused on a store holding abc and a@x.co, where
\* a request with the taken username and a malformed email is refused with
\* the username-taken error
C21_Testigo ==
  /\ ultimo.op = "registro" /\ ultimo.status = 400 /\ AbcYEmailAGuardados
  /\ crear_usuario(usuarios, Valido(Abc, EmailMalo, Clave1), "5f1c", nextId).detail
       = ErrUsuarioRegistrado

\* C22: validate_password_strength returns (true, the success message)
\* exactly for plaintexts of 8 to 128 characters with an upper-case letter,
\* a lower-case letter, a digit and a character of the special set; for any
\* other it returns (false, reason), the reason being that of the first
\* rule broken in the order minimum length, maximum length, upper, lower,
\* digit, special.
C22_Fortaleza ==
  ultimo.op = "validate_password_strength" =>
    LET p == ultimo.password
        tiene(cls) == \E i \in DOMAIN p : p[i] \in cls
        rotas == (IF Len(p) < 8 THEN {1} ELSE {})
                   \cup (IF Len(p) > 128 THEN {2} ELSE {})
                   \cup (IF ~tiene(UpperLetters) THEN {3} ELSE {})
                   \cup (IF ~tiene(LowerLetters) THEN {4} ELSE {})
                   \cup (IF ~tiene(Digits) THEN {5} ELSE {})
                   \cup (IF ~tiene(SpecialChars) THEN {6} ELSE {})
        razones == <<MsgCorta, MsgLarga, MsgMayuscula, MsgMinuscula, MsgNumero,
                     MsgEspecial>>
    IN /\ ultimo.es_valida <=> rotas = {}
       /\ rotas = {} => ultimo.mensaje = MsgOk
       /\ rotas # {} =>
            ultimo.mensaje = razones[CHOOSE k \in rotas : \A j \in rotas : k <= j]

\* validate_password_strength has just rejected "Ab1!" for its length, and
\* it accepts "Abcdef1!"
C22_Testigo ==
  /\ ultimo.op = "validate_password_strength" /\ ultimo.password = ClaveCorta
  /\ ~ultimo.es_valida /\ ultimo.mensaje = MsgCorta
  /\ validate_password_strength(Clave1) = <<TRUE, MsgOk>>

\* C23 as stated: the token create_access_token(data, ttl) returns carries
\* the caller's claims plus iat = issue time, exp = issue time + ttl (issue
\* time + 24 hours when no ttl is given) and type = "access_token", the
\* issuer's exp, iat and type replacing the caller's, and the caller's dict
\* is as before the call.
C23_ClaimsDelToken ==
  [][(ultimo'.op = "create_access_token" /\ ultimo' # ultimo)
       => LET c == tokenCliente'.claims
              d == ultimo'.data
              ttl == ultimo'.expires_delta
          IN /\ DOMAIN c = DOMAIN d \cup {"exp", "iat", "type"}
             /\ \A k \in DOMAIN d \ {"exp", "iat", "type"} : c[k] = d[k]
             /\ c.iat = reloj /\ c.type = "access_token"
             /\ c.exp = reloj + (IF ttl = NoDelta THEN ACCESS_TOKEN_EXPIRE_MINUTES
                                 ELSE ttl[1])
             /\ ultimo'.data_despues = d]_vars

\* C24 as stated: get_user_id_from_token and get_username_from_token return
\* the user_id / sub claim of a presented token that verifies and carries
\* the claim, and raise JWTError when the token does not verify or the claim
\* is absent.
C24_ClaimPresente ==
  [][/\ (ultimo'.op = "get_user_id_from_token" /\ ultimo' # ultimo)
          => \E r \in verify_token(Presentados[ultimo'.presentado], reloj) :
               IF r.exc # "" \/ "user_id" \notin DOMAIN r.payload
                 THEN ultimo'.exc = "JWTError"
                 ELSE ultimo'.exc = "" /\ ultimo'.user_id = r.payload.user_id
     /\ (ultimo'.op = "get_username_from_token" /\ ultimo' # ultimo)
          => \E r \in verify_token(Presentados[ultimo'.presentado], reloj) :
               IF r.exc # "" \/ "sub" \notin DOMAIN r.payload
                 THEN ultimo'.exc = "JWTError"
                 ELSE ultimo'.exc = "" /\ ultimo'.username = r.payload.sub]_vars

\* C24, amended: they return the claim of a presented token that verifies
\* and carries a claim that is neither 0 nor the empty string, and raise
\* JWTError when the token does not verify or the claim is absent, 0 or
\* empty.
C24_ClaimNoVacio ==
  [][/\ (ultimo'.op = "get_user_id_from_token" /\ ultimo' # ultimo)
          => \E r \in verify_token(Presentados[ultimo'.presentado], reloj) :
               IF \/ r.exc # "" \/ "user_id" \notin DOMAIN r.payload
                  \/ r.payload.user_id = 0
                 THEN ultimo'.exc = "JWTError"
                 ELSE ultimo'.exc = "" /\ ultimo'.user_id = r.payload.user_id
     /\ (ultimo'.op = "get_username_from_token" /\ ultimo' # ultimo)
          => \E r \in verify_token(Presentados[ultimo'.presentado], reloj) :
               IF \/ r.exc # "" \/ "sub" \notin DOMAIN r.payload
                  \/ r.payload.sub = <<>>
                 THEN ultimo'.exc = "JWTError"
                 ELSE ultimo'.exc = "" /\ ultimo'.username = r.payload.sub]_vars

\* get_username_from_token has just raised for the held token, which
\* verifies and carries user_id but no sub
C24_Testigo ==
  /\ ultimo.op = "get_username_from_token" /\ ultimo.presentado = "held"
  /\ ultimo.exc = "JWTError"
  /\ DOMAIN tokenCliente.claims = {"exp", "iat", "type", "user_id"}
  /\ reloj < tokenCliente.claims.exp
  /\ get_user_id_from_token(tokenCliente, reloj) = {[exc |-> "", user_id |-> 1]}

\* actualizar_usuario(i, kwargs) on the current store fails with the
\* ValueError detail and changes nothing
ActualizarFalla(i, kwargs, detail) ==
  LET r == actualizar_usuario(usuarios, i, kwargs, "")
  IN r.error = "ValueError" /\ r.detail = detail /\ r.db = usuarios

\* supplying account i's own email or username in any letter case succeeds
\* and leaves the stored value as it was
ActualizarPropio(i) ==
  /\ usuarios[i].email = EmailA =>
       \A e \in VariantesSoloCaja \cup {EmailA} :
         LET r == actualizar_usuario(usuarios, i, [email |-> e], "")
         IN r.error = "" /\ r.id = i /\ r.db[i].email = EmailA
  /\ usuarios[i].nombre_usuario = Abc =>
       \A u \in VariantesUsuario \cup {Abc} :
         LET r == actualizar_usuario(usuarios, i, [nombre_usuario |-> u], "")
         IN r.error = "" /\ r.id = i /\ r.db[i].nombre_usuario = Abc

\* C25 as stated: on every store a PUT was served from, changing an
\* account's email or username to a value that, lower-cased and trimmed, is
\* the email a@x.co or the username abc of a different account fails with
\* the uniqueness error and changes nothing, while the account's own email
\* or username in any letter case succeeds and leaves the value unchanged.
C25_UnicidadNormalizada ==
  ultimo.op = "put" =>
    \A i \in DOMAIN usuarios :
      /\ (\E j \in DOMAIN usuarios \ {i} : usuarios[j].email = EmailA) =>
           \A e \in {EmailA} \cup VariantesSoloCaja \cup VariantesUnaLinea
                      \cup VariantesEspacio :
             ActualizarFalla(i, [email |-> e], ErrEmailRegistrado)
      /\ (\E j \in DOMAIN usuarios \ {i} : usuarios[j].nombre_usuario = Abc) =>
           \A u \in {Abc, AbcLinea, Abc \o <<" ">>} \cup VariantesUsuario :
             ActualizarFalla(i, [nombre_usuario |-> u], ErrUsuarioRegistrado)
      /\ ActualizarPropio(i)

\* C25, amended: the uniqueness error is raised when the value differs from
\* the other account's in letter case or by one trailing newline; with any
\* other surrounding whitespace the update fails with the format error
\* instead; the account's own value in any letter case succeeds and leaves
\* the value unchanged.
C25_UnicidadTrasFormato ==
  ultimo.op = "put" =>
    \A i \in DOMAIN usuarios :
      /\ (\E j \in DOMAIN usuarios \ {i} : usuarios[j].email = EmailA) =>
           /\ \A e \in {EmailA} \cup VariantesSoloCaja \cup VariantesUnaLinea :
                ActualizarFalla(i, [email |-> e], ErrEmailRegistrado)
           /\ \A e \in VariantesEspacio :
                ActualizarFalla(i, [email |-> e], ErrEmailInvalido)
      /\ (\E j \in DOMAIN usuarios \ {i} : usuarios[j].nombre_usuario = Abc) =>
           /\ \A u \in {Abc, AbcLinea} \cup VariantesUsuario :
                ActualizarFalla(i, [nombre_usuario |-> u], ErrUsuarioRegistrado)
           /\ ActualizarFalla(i, [nombre_usuario |-> Abc \o <<" ">>], ErrUsuarioFormato)
      /\ ActualizarPropio(i)

\* a PUT was just refused on a store with two accounts, one of them holding
\* a@x.co and abc: giving the other one A@X.co fails with the uniqueness
\* error and giving the holder A@X.co succeeds
C25_Testigo ==
  /\ ultimo.op = "put" /\ ultimo.status = 400
  /\ \E i, j \in DOMAIN usuarios :
       /\ i # j /\ usuarios[j].email = EmailA /\ usuarios[j].nombre_usuario = Abc
       /\ ActualizarFalla(i, [email |-> EmailAMayus], ErrEmailRegistrado)
       /\ actualizar_usuario(usuarios, j, [email |-> EmailAMayus], "").id = j

\* the store db with the keys of body, normalised, written to account id
\* and nothing else changed
Parchado(db, id, body) ==
  [db EXCEPT ![id] = [c \in DOMAIN @ |->
                        IF c \in DOMAIN body THEN KwargNormalizado(body, c, "")
                        ELSE @[c]]]

\* the same, with fecha_actualizacion set to the time of the call when a
\* column of the account changed
ParchadoConSello(db, id, body) ==
  IF Parchado(db, id, body) = db THEN db
  ELSE [Parchado(db, id, body) EXCEPT ![id].fecha_actualizacion = reloj]

\* C26 as stated: a PUT /usuarios/{id} answered 200 leaves the store as it
\* was except for the fields of one account that some patch names, which
\* take the patch's values; every field the patch does not name and every
\* other account are unchanged; a PUT not answered 200 changes nothing; and
\* actualizar_usuario with the fields of a patch changes nothing for an
\* unknown id and, when it succeeds, only those fields of that account.
C26_SoloCamposDelParche ==
  [][(ultimo'.op = "put" /\ <<usuarios, ultimo>>' # <<usuarios, ultimo>>)
       => /\ ultimo'.status # 200 => usuarios' = usuarios
          /\ ultimo'.status = 200
               => \E id \in DOMAIN usuarios, body \in CuerposPut :
                    usuarios' = Parchado(usuarios, id, body)
          /\ \A id \in IdsPedidos(usuarios), body \in CuerposPut \ {<<>>} :
               LET r == actualizar_usuario(usuarios, id, body, "")
               IN /\ id \notin DOMAIN usuarios => (r.id = NoId /\ r.db = usuarios)
                  /\ r.id # NoId => r.db = Parchado(usuarios, id, body)]_vars

\* C26, amended: as above, except that when a column of the account
\* actually changes, its fecha_actualizacion is also set, to the time of the
\* call.
C26_SoloCamposYSello ==
  [][(ultimo'.op = "put" /\ <<usuarios, ultimo>>' # <<usuarios, ultimo>>)
       => /\ ultimo'.status # 200 => usuarios' = usuarios
          /\ ultimo'.status = 200
               => \E id \in DOMAIN usuarios, body \in CuerposPut :
                    usuarios' = ParchadoConSello(usuarios, id, body)
          /\ \A id \in IdsPedidos(usuarios), body \in CuerposPut \ {<<>>} :
               LET r == actualizar_usuario(usuarios, id, body, "")
               IN /\ id \notin DOMAIN usuarios => (r.id = NoId /\ r.db = usuarios)
                  /\ r.id # NoId => r.db = ParchadoConSello(usuarios, id, body)]_vars

\* a PUT was just answered 200 with two accounts stored: one is active and
\* was updated now, after it was registered; the other is as registered
C26_Testigo ==
  /\ ultimo.op = "put" /\ ultimo.status = 200
  /\ \E i, j \in DOMAIN usuarios :
       /\ usuarios[i].activo
       /\ usuarios[i].fecha_actualizacion = reloj
       /\ usuarios[i].fecha_actualizacion > usuarios[i].fecha_registro
       /\ usuarios[j].fecha_actualizacion = usuarios[j].fecha_registro
       /\ usuarios[j].fecha_registro < reloj

\* C27: in every state, every stored username is made of letters, digits
\* and underscores only, every stored email contains "@", no username is
\* the email of any account, and no identifier is found both as a username
\* and as an email, so autenticar_usuario's username-then-email lookup can
\* select one account at most.
C27_IdentificadorUnico ==
  /\ \A i \in DOMAIN usuarios :
       /\ \A k \in DOMAIN usuarios[i].nombre_usuario :
            usuarios[i].nombre_usuario[k] \in UsernameChars
       /\ \E k \in DOMAIN usuarios[i].email : usuarios[i].email[k] = "@"
  /\ \A i, j \in DOMAIN usuarios : usuarios[i].nombre_usuario # usuarios[j].email
  /\ \A ident \in IdentificadoresPrueba :
       \/ obtener_usuario_por_nombre_usuario(usuarios, ident) = NoId
       \/ obtener_usuario_por_email(usuarios, ident) = NoId

\* two accounts are stored and a login was just answered 200; one
\* identifier is found as a username only and another as an email only
C27_Testigo ==
  /\ ultimo.op = "login" /\ ultimo.status = 200
  /\ Cardinality(DOMAIN usuarios) = 2
  /\ \E u, e \in IdentificadoresPrueba :
       /\ obtener_usuario_por_nombre_usuario(usuarios, u) # NoId
       /\ obtener_usuario_por_email(usuarios, u) = NoId
       /\ obtener_usuario_por_email(usuarios, e) # NoId
       /\ obtener_usuario_por_nombre_usuario(usuarios, e) = NoId

\* C28: in every state, for every active account, every plaintext that
\* verifies against its stored digest has at least 8 characters, and a
\* login with the account's username or email, in any letter case, and that
\* plaintext is answered 200 for that account.
C28_SinBloqueo ==
  \A i \in DOMAIN usuarios :
    usuarios[i].activo =>
      \A ident \in IdentificadoresPrueba, clave \in ContrasenasPrueba :
        CredencialesDe(i, ident, clave)
          => /\ Len(clave) >= 8
             /\ login(usuarios, ident, clave).status = 200
             /\ login(usuarios, ident, clave).id = i

\* a login was just answered 200 while an active account that has changed
\* its password logs in with its username in upper case and the new
\* password, and is answered 400 with a 4-character one
C28_Testigo ==
  /\ ultimo.op = "login" /\ ultimo.status = 200
  /\ \E i \in DOMAIN usuarios :
       /\ usuarios[i].activo
       /\ CredencialesDe(i, AbcMayus, Clave2)
       /\ login(usuarios, AbcMayus, Clave2).status = 200
       /\ login(usuarios, AbcMayus, ClaveCorta).status = 400

\* a strong password that differs from Clave1 by one trailing U+0000
Clave1Nul == Clave1 \o <<Nul>>

ClavesActuales == {Clave1, Clave2} \cup ClavesGeneradas

ClavesNuevas == {Clave2, ClaveCorta, Clave1Nul}

\* cambiar_contrasena may replace the digest: the account exists, the
\* current password verifies and the new one is strong
CambioAdmitido(id, actual, nueva) ==
  /\ id \in DOMAIN usuarios
  /\ verify_password(actual, usuarios[id].contrasena_hash)
  /\ validate_password_strength(nueva)[1]

\* C29 as stated: on every reachable store, cambiar_contrasena(id, actual,
\* nueva) replaces the stored digest only when the account exists, actual
\* verifies against the stored digest and nueva passes the strength
\* validator; afterwards autenticar_usuario succeeds with nueva and, when
\* the two differ, fails with actual.  For an unknown account it returns
\* False, for a wrong actual or a weak nueva it raises ValueError, and in
\* these three cases every stored digest is as it was.
C29_CambioDeClave ==
  \A id \in IdsPedidos(usuarios), actual \in ClavesActuales,
     nueva \in ClavesNuevas, salt \in Salts :
    LET r == cambiar_contrasena(usuarios, id, actual, nueva, salt)
    IN /\ CambioAdmitido(id, actual, nueva)
            => /\ r.error = "" /\ r.id = id
               /\ verify_password(nueva, r.db[id].contrasena_hash)
               /\ autenticar_usuario(r.db, r.db[id].nombre_usuario, nueva) = id
               /\ actual # nueva
                    => autenticar_usuario(r.db, r.db[id].nombre_usuario, actual) = NoId
       /\ id \notin DOMAIN usuarios => r.error = "" /\ r.id = NoId
       /\ (id \in DOMAIN usuarios /\ ~CambioAdmitido(id, actual, nueva))
            => r.error = "ValueError"
       /\ ~CambioAdmitido(id, actual, nueva) => r.db = usuarios

\* C30: every step in which POST /auth/registro creates an account stores
\* one new row, the row of the id it answers with, and that row has
\* es_admin = false and activo = true, for a body that asks for
\* es_admin = true as for one that does not.
C30_RegistroNuncaAdmin ==
  [][(ultimo'.op = "registro" /\ ultimo'.status = 200 /\ ultimo' # ultimo)
      => /\ ultimo'.id \notin DOMAIN usuarios
         /\ DOMAIN usuarios' = DOMAIN usuarios \cup {ultimo'.id}
         /\ ~usuarios'[ultimo'.id].es_admin
         /\ usuarios'[ultimo'.id].activo]_vars

\* the registration whose body carries es_admin = true (the only accepted
\* body with the administrator's username and email) was just answered
\* 200, and the row it stored is active and not an administrator
C30_Testigo ==
  /\ ultimo.op = "registro" /\ ultimo.status = 200
  /\ ultimo.id \in DOMAIN usuarios
  /\ \E body \in CuerposCrear :
       /\ body.es_admin
       /\ usuarios[ultimo.id].nombre_usuario = Lower(Strip(body.nombre_usuario))
       /\ usuarios[ultimo.id].email = Lower(Strip(body.email))
  /\ ~usuarios[ultimo.id].es_admin
  /\ usuarios[ultimo.id].activo

TypeOK ==
  /\ DOMAIN usuarios \subseteq Ids
  /\ nextId \in 1..(MaxId + 1)
  /\ \A p \in Procs : pc[p] \in {"idle", "crear_usuario", "crear_email", "crear_commit"}

====
